---- MODULE Spec2Model ----
(***************************************************************************)
(* A model of pytrends_modern.request.TrendReq: the session credential,    *)
(* the proxy pool, the payload builder, the token exchange and the view    *)
(* pulls.  One action per public operation; the network (the Trends        *)
(* service, the proxies) is the environment and answers nondeterministically.*)
(*                                                                         *)
(* Python values are represented as follows.                               *)
(*   str | list[str]  (geo, timeframe): [list |-> BOOLEAN, v |-> Seq(str)], *)
(*                    a plain string s being [list |-> FALSE, v |-> <<s>>]  *)
(*   dict widget      [id, token, request]; the empty dict {} is NoWidget  *)
(*   cookies dict     the NID value, "" standing for the empty dict        *)
(*   text             a sequence of one-character strings                  *)
(* The service is assumed to answer the explore request with a list of     *)
(* JSON objects that carry "id", "token" and "request".                    *)
(***************************************************************************)
EXTENDS Integers, Sequences, FiniteSets, TLC

VARIABLES
    phase,                       \* "new" | "ready" | "failed" (constructor raised)
    retries,                     \* self.retries
    backoff_factor,              \* self.backoff_factor, in tenths
    requests_args,               \* self.requests_args: [proxies |-> BOOLEAN]
    proxies,                     \* self.proxies
    proxy_index,                 \* self.proxy_index
    cookies,                     \* self.cookies
    geo,                         \* self.geo
    kw_list,                     \* self.kw_list
    token_payload,               \* self.token_payload
    interest_over_time_widget,   \* self.interest_over_time_widget
    interest_by_region_widget,   \* self.interest_by_region_widget
    related_topics_widget_list,  \* self.related_topics_widget_list
    related_queries_widget_list, \* self.related_queries_widget_list
    upstream,                    \* environment: what the network can answer
    exchanges,                   \* environment: explore responses issued so far
    built,                       \* history: some build_payload has returned normally
    last                         \* observation of the last call

vars == <<phase, retries, backoff_factor, requests_args, proxies, proxy_index,
          cookies, geo, kw_list, token_payload, interest_over_time_widget,
          interest_by_region_widget, related_topics_widget_list,
          related_queries_widget_list, upstream, exchanges, built, last>>

config == <<retries, backoff_factor, requests_args, upstream>>
widgets == <<interest_over_time_widget, interest_by_region_widget,
             related_topics_widget_list, related_queries_widget_list>>
query == <<geo, kw_list, token_payload>>

----------------------------------------------------------------------------
(* Bounds of the model *)

MaxProxies == 2
MaxWidgets == 2
MaxExchanges == 2
MaxRows == 2
MaxGeos == 2
MaxKwDecode == 2

(* Program constants *)

MAX_KEYWORDS == 5
max_attempts == 3
DEFAULT_RETRIES == 3
DEFAULT_BACKOFF_FACTOR == 3

ERROR_CODES == {500, 502, 504, 429}
VALID_GPROP == {"", "images", "news", "youtube", "froogle"}

----------------------------------------------------------------------------
(* Python values *)

Str(s) == [list |-> FALSE, v |-> <<s>>]
List(xs) == [list |-> TRUE, v |-> xs]

\* bool(x) of a str or list
Truthy(x) == IF x.list THEN x.v # <<>> ELSE x.v[1] # ""

\* x or y
Or(x, y) == IF Truthy(x) THEN x ELSE y

NoToken == [ex |-> 0, pos |-> 0]
NoRequest == [keyword |-> <<>>, resolution |-> "", includeLowSearchVolumeGeos |-> FALSE]
NoWidget == [id |-> "", token |-> NoToken, request |-> NoRequest]
NoPayload == [comparisonItem |-> <<>>, category |-> 0, property |-> "", dumped |-> FALSE]

Range(s) == {s[i] : i \in 1..Len(s)}

\* bool(widget) and bool(widget_list): the guards of the pulls
HeldAlways(widget) == TRUE
Held(widget) == widget # NoWidget
HeldList(widget_list) == widget_list # <<>>

\* "token": widget["token"] of the payload of a pull
PayloadTokenFirst(widget) == [widget.token EXCEPT !.pos = 1]
PayloadToken(widget) == widget.token

\* list.pop(i) with a 0-based i
Pop(s, i) == [j \in 1..(Len(s) - 1) |-> IF j <= i THEN s[j] ELSE s[j + 1]]

SeqsUpTo(S, n) == UNION {[1..k -> S] : k \in 0..n}

----------------------------------------------------------------------------
(* Requests on the wire: one record per requests.get / session.get /       *)
(* session.post call                                                       *)

Request(url, token, items, ck, proxy) ==
    [url |-> url, token |-> token, items |-> items, cookies |-> ck, proxy |-> proxy]

\* the proxy a request goes through
ProxyOf(px, idx) ==
    IF Len(px) > 0 THEN px[idx + 1]
    ELSE IF requests_args.proxies THEN "dict" ELSE "direct"

\* What a call did: its arguments, the exception it raised ("" for none) and
\* why, the requests it sent, and the fetches of its last credential acquisition
Call(op, args, exc, why, sent, all429, fetches) ==
    [op |-> op, args |-> args, exc |-> exc, why |-> why, sent |-> sent,
     all429 |-> all429, fetches |-> fetches]

\* the call that fails before it sends anything
Refused(op, args, exc, why) == Call(op, args, exc, why, <<>>, FALSE, <<>>)

\* the call that ends as its _get_data call r ends
Ended(op, args, exc, why, r) == Call(op, args, exc, why, r.sent, r.all429, r.fetches)

----------------------------------------------------------------------------
(* TrendReq._get_google_cookie *)

Creds == {"nid1", "nid2"}

\* what one fetch of the root page can do
AllFetchOutcomes == {"none", "Exception", "ProxyError"} \cup Creds

\* a ProxyError needs a proxy
FetchOutcomes(px) ==
    {o \in upstream.fetch : o = "ProxyError" => (Len(px) > 0 \/ requests_args.proxies)}

CookieResult(raised, ck, px, idx, fetches) ==
    [raised |-> raised, cookies |-> ck, proxies |-> px, proxy_index |-> idx,
     fetches |-> fetches]

\* The except branch of a ProxyError: the pool and index afterwards, or the raise
RECURSIVE GetGoogleCookie(_, _, _, _)
ProxyErrorBranchAnyLeft(px, idx, attempt, fetches) ==
    IF Len(px) > 0
    THEN LET px2 == Pop(px, idx)
             idx2 == IF idx >= Len(px2) THEN 0 ELSE idx
         IN  GetGoogleCookie(px2, idx2, attempt + 1, fetches)
    ELSE {CookieResult(TRUE, "", px, idx, fetches)}

ProxyErrorBranch(px, idx, attempt, fetches) ==
    IF Len(px) > 1
    THEN LET px2 == Pop(px, idx)
             idx2 == IF idx >= Len(px2) THEN 0 ELSE idx
         IN  GetGoogleCookie(px2, idx2, attempt + 1, fetches)
    ELSE {CookieResult(TRUE, "", px, idx, fetches)}

\* a variant of the loop that allows one attempt more
GetGoogleCookieOneMore(px, idx, attempt, fetches) ==
    IF attempt > max_attempts
    THEN {CookieResult(FALSE, "", px, idx, fetches)}
    ELSE IF Len(px) > 0 /\ idx >= Len(px)
    THEN GetGoogleCookie(px, idx, attempt + 1, fetches)
    ELSE UNION {
        LET sent == Append(fetches, [proxy |-> ProxyOf(px, idx), pool |-> Len(px),
                                     index |-> idx, outcome |-> o,
                                     attempt |-> attempt, slept |-> 1 * attempt])
        IN  IF o \in Creds THEN {CookieResult(FALSE, o, px, idx, sent)}
            ELSE IF o = "ProxyError" THEN ProxyErrorBranch(px, idx, attempt, sent)
            ELSE GetGoogleCookie(px, idx, attempt + 1, sent)
        : o \in FetchOutcomes(px)}

\* The set of ways the loop can end, started at the given attempt number.
\* Each fetch is recorded with the proxy it went through, the size of the pool,
\* the proxy index, its outcome, the value of attempt, and the seconds slept since the fetch
\* before it: lines 183-185 run after every fetch that neither returned nor
\* raised, so the fetch of attempt a > 0 follows time.sleep(1 * a).
GetGoogleCookie(px, idx, attempt, fetches) ==
    IF attempt >= max_attempts
    THEN {CookieResult(FALSE, "", px, idx, fetches)}
    ELSE IF Len(px) > 0 /\ idx >= Len(px)
    THEN \* self.proxies[self.proxy_index] raises IndexError: except Exception
         GetGoogleCookie(px, idx, attempt + 1, fetches)
    ELSE UNION {
        LET sent == Append(fetches, [proxy |-> ProxyOf(px, idx), pool |-> Len(px),
                                     index |-> idx, outcome |-> o,
                                     attempt |-> attempt, slept |-> 1 * attempt])
        IN  IF o \in Creds THEN {CookieResult(FALSE, o, px, idx, sent)}
            ELSE IF o = "ProxyError" THEN ProxyErrorBranch(px, idx, attempt, sent)
            ELSE GetGoogleCookie(px, idx, attempt + 1, sent)
        : o \in FetchOutcomes(px)}

CookieRequests(fetches) ==
    [i \in 1..Len(fetches) |-> Request("cookie", NoToken, <<>>, "", fetches[i].proxy)]

----------------------------------------------------------------------------
(* TrendReq._get_new_proxy *)

\* a variant that never rotates
GetNewProxyStay(px, idx) == idx

\* a variant that rotates without wrapping
GetNewProxyNoWrap(px, idx) == IF Len(px) > 0 THEN idx + 1 ELSE idx

GetNewProxy(px, idx) == IF Len(px) > 0 THEN (idx + 1) % Len(px) ELSE idx

----------------------------------------------------------------------------
(* The session's transport: requests.Session with the Retry adapter that   *)
(* _get_data mounts                                                        *)

\* one HTTP attempt: a connection-level error, or a response
HttpOutcomes ==
    {[conn |-> TRUE, status |-> 0, json_type |-> FALSE, parses |-> FALSE]}
    \cup {[conn |-> FALSE, status |-> s, json_type |-> FALSE, parses |-> FALSE]
            : s \in {429, 500, 404}}
    \cup {[conn |-> FALSE, status |-> 200, json_type |-> j, parses |-> p]
            : j \in BOOLEAN, p \in BOOLEAN}

\* retries > 0 or backoff_factor > 0: the adapter is mounted
RetryMounted == retries > 0 \/ backoff_factor > 0

\* The set of ways session.get/post can end with `left` retries left: a
\* response, or a raised RequestException (exc).  all429 records whether
\* every attempt so far was answered 429.
RECURSIVE SessionSend(_, _)
SessionSend(left, all429) ==
    UNION {
        IF o.conn
        THEN IF left > 0 THEN SessionSend(left - 1, FALSE)
             ELSE {[exc |-> TRUE, resp |-> o, all429 |-> FALSE]}
        ELSE IF RetryMounted /\ o.status \in ERROR_CODES
        THEN IF left > 0 THEN SessionSend(left - 1, all429 /\ o.status = 429)
             ELSE {[exc |-> TRUE, resp |-> o, all429 |-> all429 /\ o.status = 429]}
        ELSE {[exc |-> FALSE, resp |-> o, all429 |-> all429 /\ o.status = 429]}
        : o \in upstream.http}

----------------------------------------------------------------------------
(* TrendReq._get_data *)

DataResult(exc, why, ck, px, idx, sent, all429, fetches) ==
    [exc |-> exc, why |-> why, cookies |-> ck, proxies |-> px,
     proxy_index |-> idx, sent |-> sent, all429 |-> all429, fetches |-> fetches]

\* what follows the session's answer
AfterSend(s, ck, px, idx, sent, fetches) ==
    IF s.exc
    THEN DataResult("ResponseError", "request", ck, px, idx, sent, s.all429, fetches)
    ELSE IF s.resp.status = 429
    THEN DataResult("TooManyRequestsError", "429", ck, px, idx, sent, s.all429, fetches)
    ELSE IF s.resp.status = 200 /\ s.resp.json_type
    THEN IF s.resp.parses
         THEN DataResult("", "", ck, px, GetNewProxy(px, idx), sent, s.all429, fetches)
         ELSE DataResult("ResponseError", "json", ck, px, idx, sent, s.all429, fetches)
    ELSE DataResult("ResponseError", "status", ck, px, idx, sent, s.all429, fetches)

\* The set of ways one _get_data call can end, from the given client state.
\* url and token describe the request; items are the explore comparison items.
GetData(url, token, items, ck, px, idx) ==
    LET runs == IF Len(px) > 0
                THEN GetGoogleCookie(px, idx, 0, <<>>)
                ELSE {CookieResult(FALSE, ck, px, idx, <<>>)}
    IN  UNION {
          IF c.raised
          THEN {DataResult("ResponseError", "proxy", ck, c.proxies, c.proxy_index,
                           CookieRequests(c.fetches), FALSE, c.fetches)}
          ELSE LET req == Request(url, token, items, c.cookies,
                                  ProxyOf(c.proxies, c.proxy_index))
                   sent == Append(CookieRequests(c.fetches), req)
               IN  {AfterSend(s, c.cookies, c.proxies, c.proxy_index, sent, c.fetches)
                      : s \in SessionSend(IF RetryMounted THEN retries ELSE 0, TRUE)}
          : c \in runs}

----------------------------------------------------------------------------
(* TrendReq.__init__ *)

\* The arguments of the constructor call: the client before __init__ runs
InitWith(Retries, Backoffs, ProxyLists, DictProxies, Geos, Upstreams) ==
    /\ phase = "new"
    /\ upstream \in Upstreams
    /\ retries \in Retries
    /\ backoff_factor \in Backoffs
    /\ proxies \in ProxyLists
    /\ requests_args \in {[proxies |-> d] : d \in IF proxies = <<>> THEN DictProxies ELSE {FALSE}}
    /\ proxy_index = 0
    /\ cookies = ""
    /\ geo \in Geos
    /\ kw_list = <<>>
    /\ token_payload = NoPayload
    /\ interest_over_time_widget = NoWidget
    /\ interest_by_region_widget = NoWidget
    /\ related_topics_widget_list = <<>>
    /\ related_queries_widget_list = <<>>
    /\ exchanges = 0
    /\ built = FALSE
    /\ last = Refused("none", <<>>, "", "")

\* __init__: the first credential acquisition decides whether a client exists
Construct ==
    /\ phase = "new"
    /\ \E c \in GetGoogleCookie(proxies, 0, 0, <<>>) :
         /\ phase' = IF c.raised THEN "failed" ELSE "ready"
         /\ cookies' = c.cookies
         /\ proxies' = c.proxies
         /\ proxy_index' = c.proxy_index
         /\ last' = Call("__init__", <<>>,
                          IF c.raised THEN "ResponseError" ELSE "",
                          IF c.raised THEN "proxy" ELSE "",
                          CookieRequests(c.fetches), FALSE, c.fetches)
    /\ UNCHANGED <<config, query, widgets, exchanges, built>>

----------------------------------------------------------------------------
(* TrendReq.build_payload: the comparison items *)

\* itertools.product(kws, gs): the nested loop, the rightmost sequence fastest
ProductGeoMajor(kws, gs) ==
    [p \in 1..(Len(kws) * Len(gs)) |->
        <<kws[((p - 1) % Len(kws)) + 1], gs[((p - 1) \div Len(kws)) + 1]>>]

RECURSIVE Product(_, _)
Product(kws, gs) ==
    IF kws = <<>> THEN <<>>
    ELSE [j \in 1..Len(gs) |-> <<Head(kws), gs[j]>>] \o Product(Tail(kws), gs)

\* geo_list = self.geo if isinstance(self.geo, list) else [self.geo]
GeoList(g) == g.v

\* The loop of lines 323-332 from pair number i on: the items appended, and
\* whether timeframe[index] raised IndexError
ComparisonItemsClamped(pairs, timeframe, i, acc) ==
    IF timeframe.v = <<>> THEN [items |-> <<>>, raised |-> pairs # <<>>]
    ELSE [items |-> [p \in 1..Len(pairs) |->
                       [keyword |-> pairs[p][1],
                        time |-> timeframe.v[IF p <= Len(timeframe.v) THEN p
                                             ELSE Len(timeframe.v)],
                        geo |-> pairs[p][2]]],
          raised |-> FALSE]

RECURSIVE ComparisonItems(_, _, _, _)
ComparisonItems(pairs, timeframe, i, acc) ==
    IF i > Len(pairs) THEN [items |-> acc, raised |-> FALSE]
    ELSE IF timeframe.list
    THEN IF i > Len(timeframe.v) THEN [items |-> acc, raised |-> TRUE]
         ELSE ComparisonItems(pairs, timeframe, i + 1,
                Append(acc, [keyword |-> pairs[i][1], time |-> timeframe.v[i],
                             geo |-> pairs[i][2]]))
    ELSE ComparisonItems(pairs, timeframe, i + 1,
                Append(acc, [keyword |-> pairs[i][1], time |-> timeframe.v[1],
                             geo |-> pairs[i][2]]))

----------------------------------------------------------------------------
(* TrendReq._get_tokens *)

RelatedTopicsIds == {"RELATED_TOPICS"}
RelatedQueriesIds == {"RELATED_QUERIES"}
WidgetIds == {"TIMESERIES", "GEO_MAP", "OTHER"} \cup RelatedTopicsIds \cup RelatedQueriesIds

\* a variant of the widget loop in which every GEO_MAP widget is stored
RECURSIVE ParseWidgetsLastRegion(_, _, _)
ParseWidgetsLastRegion(widget_dicts, i, st) ==
    IF i > Len(widget_dicts) THEN st
    ELSE LET widget == widget_dicts[i]
             widget_id == widget.id
         IN  ParseWidgetsLastRegion(widget_dicts, i + 1,
               IF widget_id = "TIMESERIES"
               THEN [st EXCEPT !.iot = widget]
               ELSE IF widget_id = "GEO_MAP"
               THEN [st EXCEPT !.ibr = widget, !.first_region_token = FALSE]
               ELSE IF widget_id \in RelatedTopicsIds
               THEN [st EXCEPT !.rt = Append(@, widget)]
               ELSE IF widget_id \in RelatedQueriesIds
               THEN [st EXCEPT !.rq = Append(@, widget)]
               ELSE st)

\* The widget loop of lines 360-372 from widget number i on
RECURSIVE ParseWidgets(_, _, _)
ParseWidgets(widget_dicts, i, st) ==
    IF i > Len(widget_dicts) THEN st
    ELSE LET widget == widget_dicts[i]
             widget_id == widget.id
         IN  ParseWidgets(widget_dicts, i + 1,
               IF widget_id = "TIMESERIES"
               THEN [st EXCEPT !.iot = widget]
               ELSE IF widget_id = "GEO_MAP" /\ st.first_region_token
               THEN [st EXCEPT !.ibr = widget, !.first_region_token = FALSE]
               ELSE IF widget_id \in RelatedTopicsIds
               THEN [st EXCEPT !.rt = Append(@, widget)]
               ELSE IF widget_id \in RelatedQueriesIds
               THEN [st EXCEPT !.rq = Append(@, widget)]
               ELSE st)

\* The state of the four holders after _get_tokens has parsed widget_dicts
GetTokens(widget_dicts) ==
    ParseWidgets(widget_dicts, 1,
        [iot |-> interest_over_time_widget, ibr |-> interest_by_region_widget,
         rt |-> <<>>, rq |-> <<>>, first_region_token |-> TRUE])

\* The explore response of the service: shape gives, per widget, its id and
\* whether its request carries the keyword restriction.  The service issues a
\* fresh token per widget and restricts the j-th widget of a related kind to
\* the j-th keyword.
CountBefore(shape, i) == Cardinality({j \in 1..(i - 1) : shape[j].id = shape[i].id})

ExploreResponse(shape, kws) ==
    [i \in 1..Len(shape) |->
        [id |-> shape[i].id,
         token |-> [ex |-> exchanges + 1, pos |-> i],
         request |-> [NoRequest EXCEPT !.keyword =
              IF shape[i].meta THEN <<kws[(CountBefore(shape, i) % Len(kws)) + 1]>>
              ELSE <<>>]]]

----------------------------------------------------------------------------
(* TrendReq.build_payload *)

BuildArgs(kw, cat, timeframe, g, gprop) ==
    [kw_list |-> kw, cat |-> cat, timeframe |-> timeframe, geo |-> g, gprop |-> gprop]

\* lines 297-306: the exception validation raises, "" when it passes
ValidateNoEmptyCheck(kw, gprop) ==
    IF gprop \notin VALID_GPROP THEN "ValueError"
    ELSE IF Len(kw) > MAX_KEYWORDS THEN "ValueError"
    ELSE ""

ValidateNoCountCheck(kw, gprop) ==
    IF gprop \notin VALID_GPROP THEN "ValueError"
    ELSE IF Len(kw) = 0 THEN "ValueError"
    ELSE ""

Validate(kw, gprop) ==
    IF gprop \notin VALID_GPROP THEN "ValueError"
    ELSE IF Len(kw) > MAX_KEYWORDS THEN "ValueError"
    ELSE IF Len(kw) = 0 THEN "ValueError"
    ELSE ""

\* Responses: the answers the explore endpoint can give, each [has_widgets, shape]:
\* whether the parsed JSON has the key "widgets", and the shape of its widgets
BuildPayload(kw, cat, timeframe, g, gprop, Responses) ==
    /\ phase = "ready"
    /\ LET args == BuildArgs(kw, cat, timeframe, g, gprop)
           geo2 == Or(g, geo)
           built_items == ComparisonItems(Product(kw, GeoList(geo2)), timeframe, 1, <<>>)
       IN  IF Validate(kw, gprop) # ""
           THEN /\ last' = Refused("build_payload", args, Validate(kw, gprop), "validation")
                /\ UNCHANGED <<config, proxies, proxy_index, cookies, query, widgets,
                               exchanges, built, phase>>
           ELSE IF built_items.raised
           THEN /\ kw_list' = kw
                /\ geo' = geo2
                /\ token_payload' = [comparisonItem |-> built_items.items, category |-> cat,
                                     property |-> gprop, dumped |-> FALSE]
                /\ last' = Refused("build_payload", args, "IndexError", "timeframe")
                /\ UNCHANGED <<config, proxies, proxy_index, cookies, widgets,
                               exchanges, built, phase>>
           ELSE /\ kw_list' = kw
                /\ geo' = geo2
                /\ token_payload' = [comparisonItem |-> built_items.items, category |-> cat,
                                     property |-> gprop, dumped |-> TRUE]
                /\ \E r \in GetData("explore", NoToken, built_items.items,
                                    cookies, proxies, proxy_index) :
                     /\ cookies' = r.cookies
                     /\ proxies' = r.proxies
                     /\ proxy_index' = r.proxy_index
                     /\ IF r.exc # ""
                        THEN /\ last' = Ended("build_payload", args, r.exc, r.why, r)
                             /\ UNCHANGED <<widgets, exchanges, built>>
                        ELSE \E resp \in Responses :
                        IF ~resp.has_widgets
                        THEN /\ last' = Ended("build_payload", args, "KeyError", "widgets", r)
                             /\ UNCHANGED <<widgets, exchanges, built>>
                        ELSE /\ exchanges < MaxExchanges
                             /\ LET st == GetTokens(ExploreResponse(resp.shape, kw))
                                IN  /\ interest_over_time_widget' = st.iot
                                    /\ interest_by_region_widget' = st.ibr
                                    /\ related_topics_widget_list' = st.rt
                                    /\ related_queries_widget_list' = st.rq
                             /\ exchanges' = exchanges + 1
                             /\ built' = TRUE
                             /\ last' = [op |-> "build_payload", args |-> args, exc |-> "",
                                          why |-> "ok", sent |-> r.sent, all429 |-> r.all429,
                                          fetches |-> r.fetches,
                                          response |-> ExploreResponse(resp.shape, kw)]
                /\ UNCHANGED <<config, phase>>

----------------------------------------------------------------------------
(* Text: str(x), str.replace, str.split, int(s) *)

Digits == <<"0", "1", "2", "3", "4", "5", "6", "7", "8", "9">>

\* str(n) of a non-negative int
RECURSIVE IntStr(_)
IntStr(n) == IF n < 10 THEN <<Digits[n + 1]>> ELSE IntStr(n \div 10) \o <<Digits[(n % 10) + 1]>>

BoolStr(b) == IF b THEN <<"T", "r", "u", "e">> ELSE <<"F", "a", "l", "s", "e">>

\* ", ".join(parts)
RECURSIVE Join(_)
Join(parts) ==
    IF parts = <<>> THEN <<>>
    ELSE IF Len(parts) = 1 THEN parts[1]
    ELSE parts[1] \o <<",", " ">> \o Join(Tail(parts))

\* str(xs) of a list whose elements have the given texts
ListStr(parts) == <<"[">> \o Join(parts) \o <<"]">>

\* s.replace(ch, "")
Remove(s, ch) == SelectSeq(s, LAMBDA c : c # ch)

\* s.split(sep): cur is the piece being read
RECURSIVE SplitFrom(_, _, _)
SplitFrom(s, sep, cur) ==
    IF s = <<>> THEN <<cur>>
    ELSE IF Head(s) = sep THEN <<cur>> \o SplitFrom(Tail(s), sep, <<>>)
    ELSE SplitFrom(Tail(s), sep, Append(cur, Head(s)))

Split(s, sep) == SplitFrom(s, sep, <<>>)

\* str(x).replace("[", "").replace("]", "").split(",")
BracketSplitOpenOnly(text) == Split(Remove(text, "["), ",")

BracketSplit(text) == Split(Remove(Remove(text, "["), "]"), ",")

DigitValue(c) == CHOOSE d \in 0..9 : Digits[d + 1] = c

RECURSIVE DigitsValue(_, _)
DigitsValue(s, acc) ==
    IF s = <<>> THEN acc ELSE DigitsValue(Tail(s), 10 * acc + DigitValue(Head(s)))

\* int(s): surrounding blanks are skipped; anything but digits is a ValueError
ParseInt(s) ==
    LET t == Remove(s, " ")
    IN  IF t # <<>> /\ \A i \in 1..Len(t) : t[i] \in Range(Digits)
        THEN [ok |-> TRUE, n |-> DigitsValue(t, 0)]
        ELSE [ok |-> FALSE, n |-> 0]

----------------------------------------------------------------------------
(* Tables (pandas.DataFrame): [columns, index, data], data[r][c] the cell of *)
(* row r and column c.  A column label is [kind, v]: a str, a tuple of str,  *)
(* or an int left over from the split (v its decimal text).                 *)

StrLabel(s) == [kind |-> "str", v |-> <<s>>]
TupleLabel(t) == [kind |-> "tuple", v |-> t]
IntLabel(n) == [kind |-> "int", v |-> IntStr(n)]

IntCell(n) == [t |-> "int", n |-> n]
TextCell(s) == [t |-> "str", s |-> s]
BoolCell(b) == [t |-> "bool", b |-> b]
NaN == [t |-> "nan"]

EmptyTable == [columns |-> <<>>, index |-> <<>>, data |-> <<>>]

Decoded(exc, table) == [exc |-> exc, table |-> table]

Max(S) == CHOOSE x \in S : \A y \in S : y <= x

\* sort_index() on distinct keys: the rows in ascending order of keys, keys[i]
\* being the key of rows[i]
SortBy(rows, keys) ==
    [p \in 1..Len(rows) |->
        rows[CHOOSE i \in 1..Len(rows) :
               Cardinality({j \in 1..Len(rows) : keys[j] < keys[i]}) = p - 1]]

----------------------------------------------------------------------------
(* TrendReq.interest_over_time: the decoding of lines 407-448 *)

\* df["value"].apply(...): the pieces of each row
ValuePieces(rows) ==
    [r \in 1..Len(rows) |-> BracketSplit(ListStr([i \in 1..Len(rows[r].value) |->
                                                    IntStr(rows[r].value[i])]))]

\* The naming loop of lines 424-427 from comparison item i on.  named holds the
\* labels inserted so far and, per row, the cells inserted so far.
RECURSIVE NameColumns(_, _, _, _, _)
NameColumns(pieces, pairs, single_geo, i, named) ==
    IF i > Len(pairs) THEN [exc |-> "", labels |-> named.labels, cells |-> named.cells]
    ELSE LET name == IF single_geo THEN StrLabel(pairs[i][1]) ELSE TupleLabel(pairs[i])
             width == Max({Len(pieces[r]) : r \in 1..Len(pieces)})
             parsed == [r \in 1..Len(pieces) |->
                          IF i <= Len(pieces[r]) THEN ParseInt(pieces[r][i])
                          ELSE [ok |-> FALSE, n |-> 0]]
         IN  IF i > width THEN [exc |-> "KeyError", labels |-> named.labels, cells |-> named.cells]
             ELSE IF \E r \in 1..Len(pieces) : ~parsed[r].ok
             THEN [exc |-> "ValueError", labels |-> named.labels, cells |-> named.cells]
             ELSE IF name \in Range(named.labels)
             THEN [exc |-> "ValueError", labels |-> named.labels, cells |-> named.cells]
             ELSE NameColumns(pieces, pairs, single_geo, i + 1,
                    [labels |-> Append(named.labels, name),
                     cells |-> [r \in 1..Len(pieces) |->
                                  Append(named.cells[r], IntCell(parsed[r].n))]])

\* The columns the naming loop did not consume keep their int label and text
LeftOver(pieces, n) ==
    LET width == Max({Len(pieces[r]) : r \in 1..Len(pieces)})
    IN  [labels |-> [j \in 1..(width - n) |-> IntLabel(n + j - 1)],
         cells |-> [r \in 1..Len(pieces) |->
                      [j \in 1..(width - n) |->
                         IF n + j <= Len(pieces[r]) THEN TextCell(pieces[r][n + j])
                         ELSE NaN]]]

\* lines 429-440: the isPartial column, or the ValueError of the relabelling
PartialPieces(rows) ==
    [r \in 1..Len(rows) |->
        BracketSplit(IF rows[r].isPartial.present
                     THEN ListStr([i \in 1..Len(rows[r].isPartial.v) |->
                                     BoolStr(rows[r].isPartial.v[i])])
                     ELSE BoolStr(FALSE))]

\* a variant that marks every row that carries a flag, whatever its value
IsPartialColumnPresent(rows) ==
    IF \E r \in 1..Len(rows) : rows[r].isPartial.present
    THEN LET pp == PartialPieces(rows)
         IN  IF Max({Len(pp[r]) : r \in 1..Len(rows)}) # 1
             THEN [exc |-> "ValueError", col |-> <<>>]
             ELSE [exc |-> "", col |-> [r \in 1..Len(rows) |-> BoolCell(rows[r].isPartial.present)]]
    ELSE [exc |-> "", col |-> [r \in 1..Len(rows) |-> BoolCell(FALSE)]]

IsPartialColumn(rows) ==
    IF \E r \in 1..Len(rows) : rows[r].isPartial.present
    THEN LET pp == PartialPieces(rows)
         IN  IF Max({Len(pp[r]) : r \in 1..Len(rows)}) # 1
             THEN [exc |-> "ValueError", col |-> <<>>]
             ELSE [exc |-> "", col |-> [r \in 1..Len(rows) |-> BoolCell(pp[r][1] = BoolStr(TRUE))]]
    ELSE [exc |-> "", col |-> [r \in 1..Len(rows) |-> BoolCell(FALSE)]]

\* lines 442-446: the labels as a MultiIndex
MultiIndexLabel(c) == IF c.kind = "tuple" THEN c ELSE TupleLabel(c.v)

\* The table interest_over_time makes of timelineData, or the exception raised
InterestOverTimeDecode(kws, g, timelineData) ==
    IF timelineData = <<>> THEN Decoded("", EmptyTable)
    ELSE LET rows == SortBy(timelineData, [i \in 1..Len(timelineData) |-> timelineData[i].time])
             pieces == ValuePieces(rows)
             geo_list == GeoList(g)
             pairs == Product(kws, geo_list)
             named == NameColumns(pieces, pairs, Len(geo_list) = 1, 1,
                                  [labels |-> <<>>, cells |-> [r \in 1..Len(rows) |-> <<>>]])
             rest == LeftOver(pieces, Len(pairs))
             partial == IsPartialColumn(rows)
             labels == rest.labels \o named.labels \o <<StrLabel("isPartial")>>
         IN  IF named.exc # "" THEN Decoded(named.exc, EmptyTable)
             ELSE IF partial.exc # "" THEN Decoded(partial.exc, EmptyTable)
             ELSE Decoded("",
                    [columns |-> IF Len(geo_list) > 1
                                 THEN [c \in 1..Len(labels) |-> MultiIndexLabel(labels[c])]
                                 ELSE labels,
                     index |-> [r \in 1..Len(rows) |-> rows[r].time],
                     data |-> [r \in 1..Len(rows) |->
                                 rest.cells[r] \o named.cells[r] \o <<partial.col[r]>>]])

----------------------------------------------------------------------------
(* TrendReq.interest_over_time *)

\* Responses: the answers the endpoint can give, each [has_keys, data]: whether
\* the parsed JSON has ["default"]["timelineData"], and that list
InterestOverTime(Responses) ==
    /\ phase = "ready"
    /\ IF ~Held(interest_over_time_widget)
       THEN /\ last' = Refused("interest_over_time", <<>>, "ResponseError", "build_payload")
            /\ UNCHANGED <<proxies, proxy_index, cookies>>
       ELSE \E r \in GetData("multiline", PayloadToken(interest_over_time_widget), <<>>,
                             cookies, proxies, proxy_index) :
              /\ cookies' = r.cookies
              /\ proxies' = r.proxies
              /\ proxy_index' = r.proxy_index
              /\ IF r.exc # ""
                 THEN last' = Ended("interest_over_time", <<>>, r.exc, r.why, r)
                 ELSE \E resp \in Responses :
                      IF ~resp.has_keys
                      THEN last' = Ended("interest_over_time", <<>>, "KeyError", "default", r)
                      ELSE LET d == InterestOverTimeDecode(kw_list, geo, resp.data)
                           IN  last' = [op |-> "interest_over_time", args |-> <<>>,
                                        exc |-> d.exc,
                                        why |-> IF d.exc = "" THEN "ok" ELSE "decode",
                                        sent |-> r.sent, all429 |-> r.all429,
                                        fetches |-> r.fetches,
                                        response |-> resp.data, result |-> d.table]
    /\ UNCHANGED <<config, query, widgets, exchanges, built, phase>>

----------------------------------------------------------------------------
(* TrendReq.interest_by_region *)

\* location names in ascending lexical order
RegionNames == <<"Alabama", "Kansas", "Texas", "Utah">>
NameRank(name) == CHOOSE i \in 1..Len(RegionNames) : RegionNames[i] = name

\* lines 478-481: the held descriptor's request after the resolution is set
RegionRequest(request, resolution, inc_low_vol) ==
    [request EXCEPT
        !.resolution = IF geo = Str("")
                          \/ (geo = Str("US") /\ resolution \in {"DMA", "CITY", "REGION"})
                       THEN resolution ELSE @,
        !.includeLowSearchVolumeGeos = inc_low_vol]

\* The loop of lines 519-521 from keyword i on: result_df[kw] = ... overwrites
\* a column of the same label in place
RECURSIVE NameRegionColumns(_, _, _, _)
NameRegionColumns(pieces, kws, i, named) ==
    IF i > Len(kws) THEN [exc |-> "", labels |-> named.labels, cells |-> named.cells]
    ELSE LET name == StrLabel(kws[i])
             width == Max({Len(pieces[r]) : r \in 1..Len(pieces)})
             parsed == [r \in 1..Len(pieces) |->
                          IF i <= Len(pieces[r]) THEN ParseInt(pieces[r][i])
                          ELSE [ok |-> FALSE, n |-> 0]]
         IN  IF i > width THEN [exc |-> "KeyError", labels |-> named.labels, cells |-> named.cells]
             ELSE IF \E r \in 1..Len(pieces) : ~parsed[r].ok
             THEN [exc |-> "ValueError", labels |-> named.labels, cells |-> named.cells]
             ELSE IF name \in Range(named.labels)
             THEN LET c == CHOOSE c \in 1..Len(named.labels) : named.labels[c] = name
                  IN  NameRegionColumns(pieces, kws, i + 1,
                        [labels |-> named.labels,
                         cells |-> [r \in 1..Len(pieces) |->
                                      [named.cells[r] EXCEPT ![c] = IntCell(parsed[r].n)]]])
             ELSE NameRegionColumns(pieces, kws, i + 1,
                    [labels |-> Append(named.labels, name),
                     cells |-> [r \in 1..Len(pieces) |->
                                  Append(named.cells[r], IntCell(parsed[r].n))]])

\* lines 498-523; geoMapData is [geo_column, rows], geo_column "" when the rows
\* carry neither geoCode nor coordinates
InterestByRegionDecode(kws, inc_geo_code, geoMapData) ==
    IF geoMapData.rows = <<>> THEN Decoded("", EmptyTable)
    ELSE IF geoMapData.geo_column = "" THEN Decoded("KeyError", EmptyTable)
    ELSE LET rows == SortBy(geoMapData.rows,
                            [i \in 1..Len(geoMapData.rows) |-> NameRank(geoMapData.rows[i].geoName)])
             pieces == ValuePieces(rows)
             named == NameRegionColumns(pieces, kws, 1,
                        [labels |-> <<>>, cells |-> [r \in 1..Len(rows) |-> <<>>]])
             rest == LeftOver(pieces, Len(kws))
             code == IF inc_geo_code
                     THEN [labels |-> <<StrLabel(geoMapData.geo_column)>>,
                           cells |-> [r \in 1..Len(rows) |-> <<TextCell(rows[r].code)>>]]
                     ELSE [labels |-> <<>>, cells |-> [r \in 1..Len(rows) |-> <<>>]]
         IN  IF named.exc # "" THEN Decoded(named.exc, EmptyTable)
             ELSE Decoded("",
                    [columns |-> rest.labels \o code.labels \o named.labels,
                     index |-> [r \in 1..Len(rows) |-> rows[r].geoName],
                     data |-> [r \in 1..Len(rows) |->
                                 rest.cells[r] \o code.cells[r] \o named.cells[r]]])

RegionArgs(resolution, inc_low_vol, inc_geo_code) ==
    [resolution |-> resolution, inc_low_vol |-> inc_low_vol, inc_geo_code |-> inc_geo_code]

\* Responses: the answers the endpoint can give, each [has_keys, data]: whether
\* the parsed JSON has ["default"]["geoMapData"], and that list
InterestByRegion(resolution, inc_low_vol, inc_geo_code, Responses) ==
    /\ phase = "ready"
    /\ LET args == RegionArgs(resolution, inc_low_vol, inc_geo_code)
       IN  IF ~Held(interest_by_region_widget)
           THEN /\ last' = Refused("interest_by_region", args, "ResponseError", "build_payload")
                /\ UNCHANGED <<proxies, proxy_index, cookies, interest_by_region_widget>>
           ELSE /\ interest_by_region_widget' =
                      [interest_by_region_widget EXCEPT
                          !.request = RegionRequest(@, resolution, inc_low_vol)]
                /\ \E r \in GetData("comparedgeo", PayloadToken(interest_by_region_widget), <<>>,
                                    cookies, proxies, proxy_index) :
                     /\ cookies' = r.cookies
                     /\ proxies' = r.proxies
                     /\ proxy_index' = r.proxy_index
                     /\ IF r.exc # ""
                        THEN last' = Ended("interest_by_region", args, r.exc, r.why, r)
                        ELSE \E resp \in Responses :
                             IF ~resp.has_keys
                             THEN last' = Ended("interest_by_region", args, "KeyError", "default", r)
                             ELSE LET d == InterestByRegionDecode(kw_list, inc_geo_code, resp.data)
                                  IN  last' = [op |-> "interest_by_region", args |-> args,
                                               exc |-> d.exc,
                                               why |-> IF d.exc = "" THEN "ok" ELSE "decode",
                                               sent |-> r.sent, all429 |-> r.all429,
                                               fetches |-> r.fetches,
                                               response |-> resp.data, result |-> d.table]
    /\ UNCHANGED <<config, query, interest_over_time_widget, related_topics_widget_list,
                   related_queries_widget_list, exchanges, built, phase>>

----------------------------------------------------------------------------
(* TrendReq.related_topics and TrendReq.related_queries *)

\* A ranked list of a response: "missing", "empty" (no ranked keyword) or "rows"
RankedShapes == {"missing", "empty", "rows"}

\* lines 570-582: json_normalize makes an empty frame of an empty list
TopicsHalfEmpty(shape) == IF shape = "missing" THEN "empty" ELSE shape

TopicsHalf(shape) == IF shape = "missing" THEN "None" ELSE shape

\* lines 633-645: selecting ["query", "value"] of an empty frame is a KeyError
QueriesHalf(shape) == IF shape = "rows" THEN "rows" ELSE "None"

\* lines 548-553 and 611-616
WidgetKeyword(widget) ==
    IF widget.request.keyword = <<>> THEN "" ELSE widget.request.keyword[1]

\* a variant that adds an entry on every assignment
DictAppend(d, key, value) == Append(d, [key |-> key, value |-> value])

\* result_dict[kw] = value, the dict kept in insertion order
DictSet(d, key, value) ==
    IF \E i \in 1..Len(d) : d[i].key = key
    THEN [i \in 1..Len(d) |-> IF d[i].key = key THEN [key |-> key, value |-> value] ELSE d[i]]
    ELSE Append(d, [key |-> key, value |-> value])

\* The loop over the held descriptors from descriptor i on: the set of ways it
\* can end.  run carries the client state, the requests sent and result_dict.
RECURSIVE RelatedLoop(_, _, _, _, _)
RelatedLoop(widget_list, queries, shapes, i, run) ==
    IF i > Len(widget_list) THEN {run}
    ELSE UNION {
        IF r.exc # ""
        THEN {[run EXCEPT !.exc = r.exc, !.why = r.why, !.cookies = r.cookies,
                          !.proxies = r.proxies, !.proxy_index = r.proxy_index,
                          !.sent = @ \o r.sent, !.all429 = r.all429,
                          !.fetches = r.fetches]}
        ELSE UNION {
            RelatedLoop(widget_list, queries, shapes, i + 1,
               [run EXCEPT !.cookies = r.cookies, !.proxies = r.proxies,
                           !.proxy_index = r.proxy_index, !.sent = @ \o r.sent,
                           !.all429 = r.all429, !.fetches = r.fetches,
                           !.response = Append(@, sh),
                           !.result = DictSet(@, WidgetKeyword(widget_list[i]),
                               IF queries
                               THEN [top |-> QueriesHalf(sh.top), rising |-> QueriesHalf(sh.rising)]
                               ELSE [top |-> TopicsHalf(sh.top), rising |-> TopicsHalf(sh.rising)])])
            : sh \in shapes}
        : r \in GetData("relatedsearches", PayloadToken(widget_list[i]), <<>>,
                        run.cookies, run.proxies, run.proxy_index)}

RelatedPull(op, widget_list, queries, shapes) ==
    /\ phase = "ready"
    /\ IF ~HeldList(widget_list)
       THEN /\ last' = Refused(op, <<>>, "ResponseError", "build_payload")
            /\ UNCHANGED <<proxies, proxy_index, cookies>>
       ELSE \E run \in RelatedLoop(widget_list, queries, shapes, 1,
                          [exc |-> "", why |-> "ok", cookies |-> cookies, proxies |-> proxies,
                           proxy_index |-> proxy_index, sent |-> <<>>, all429 |-> FALSE,
                           fetches |-> <<>>, response |-> <<>>, result |-> <<>>]) :
              /\ cookies' = run.cookies
              /\ proxies' = run.proxies
              /\ proxy_index' = run.proxy_index
              /\ last' = [op |-> op, args |-> <<>>, exc |-> run.exc, why |-> run.why,
                          sent |-> run.sent, all429 |-> run.all429,
                          fetches |-> run.fetches, response |-> run.response,
                          result |-> IF run.exc = "" THEN run.result ELSE <<>>]
    /\ UNCHANGED <<config, query, widgets, exchanges, built, phase>>

RelatedTopics(shapes) ==
    RelatedPull("related_topics", related_topics_widget_list, FALSE, shapes)

RelatedQueries(shapes) ==
    RelatedPull("related_queries", related_queries_widget_list, TRUE, shapes)

----------------------------------------------------------------------------
(* Inputs *)

Keywords == <<"k1", "k2", "k3", "k4", "k5", "k6">>
KwPrefix(n) == SubSeq(Keywords, 1, n)

GeoCodes == <<"US", "GB", "DE">>

DefaultTimeframe == Str(0)

\* a response row of the time series view for n comparison items
TimelineRow(t, n, partial) ==
    [time |-> t, value |-> [i \in 1..n |-> 50 + i], isPartial |-> partial]

Flag(b) == [present |-> TRUE, v |-> <<b>>]
NoFlag == [present |-> FALSE, v |-> <<>>]

RegionRow(name, n) == [geoName |-> name, code |-> <<"U", "S">>, value |-> [i \in 1..n |-> 50 + i]]

----------------------------------------------------------------------------
(* Answers of the service *)

MissingKey == [has_widgets |-> FALSE, has_keys |-> FALSE, shape |-> <<>>, data |-> <<>>]

ExploreAnswers(shapes) ==
    {MissingKey} \cup {[has_widgets |-> TRUE, shape |-> sh] : sh \in shapes}

DataAnswers(datas) ==
    {MissingKey} \cup {[has_keys |-> TRUE, data |-> d] : d \in datas}

HttpOk == [conn |-> FALSE, status |-> 200, json_type |-> TRUE, parses |-> TRUE]
HttpConn == [conn |-> TRUE, status |-> 0, json_type |-> FALSE, parses |-> FALSE]

----------------------------------------------------------------------------
(* The client facade: build_payload and the four pulls, in any order, on a  *)
(* client without proxies                                                   *)

Init ==
    InitWith({DEFAULT_RETRIES}, {DEFAULT_BACKOFF_FACTOR}, {<<>>}, {FALSE}, {Str("")},
             {[http |-> {HttpOk, HttpConn}, fetch |-> {"nid1"}]})

Build ==
    \E kw \in {KwPrefix(1)} :
        BuildPayload(kw, 0, DefaultTimeframe, Str(""), "",
                     ExploreAnswers(SeqsUpTo({[id |-> i, meta |-> TRUE] : i \in WidgetIds},
                                             MaxWidgets)))

PullTimeSeries == InterestOverTime(DataAnswers({[r \in 1..1 |-> TimelineRow(r, Len(kw_list), NoFlag)]}))

PullRegion ==
    InterestByRegion("COUNTRY", FALSE, FALSE,
                     DataAnswers({[geo_column |-> "geoCode",
                                   rows |-> <<RegionRow("Texas", Len(kw_list))>>]}))

PullTopics == RelatedTopics({[top |-> "rows", rising |-> "rows"]})

PullQueries == RelatedQueries({[top |-> "rows", rising |-> "rows"]})

Next ==
    \/ Construct
    \/ Build
    \/ PullTimeSeries
    \/ PullRegion
    \/ PullTopics
    \/ PullQueries

Spec == Init /\ [][Next]_vars

----------------------------------------------------------------------------
(* Claims about the facade *)

Pulls == {"interest_over_time", "interest_by_region", "related_topics", "related_queries"}

\* the held descriptors of a view, in order
HeldOf(op) ==
    IF op = "interest_over_time"
    THEN IF Held(interest_over_time_widget) THEN <<interest_over_time_widget>> ELSE <<>>
    ELSE IF op = "interest_by_region"
    THEN IF Held(interest_by_region_widget) THEN <<interest_by_region_widget>> ELSE <<>>
    ELSE IF op = "related_topics" THEN related_topics_widget_list
    ELSE related_queries_widget_list

\* the ids a view takes its descriptors from
IdsOf(op) ==
    IF op = "interest_over_time" THEN {"TIMESERIES"}
    ELSE IF op = "interest_by_region" THEN {"GEO_MAP"}
    ELSE IF op = "related_topics" THEN RelatedTopicsIds
    ELSE RelatedQueriesIds

\* the tokens of the data requests of a call, in the order sent
DataRequests(call) == SelectSeq(call.sent, LAMBDA q : q.url \notin {"cookie", "explore"})
SentTokens(call) == [i \in 1..Len(DataRequests(call)) |-> DataRequests(call)[i].token]

ExchangeDone == last.op = "build_payload" /\ last.why = "ok"

\* C1: after every successful token exchange the held descriptors are those
\* of that exchange's response: every held descriptor is a widget of the
\* response, and a view whose kind the response lacks holds none.
C1_HeldAreOfResponse ==
    ExchangeDone =>
        \A op \in Pulls :
            /\ Range(HeldOf(op)) \subseteq Range(last.response)
            /\ (\A i \in 1..Len(last.response) : last.response[i].id \notin IdsOf(op))
                  => HeldOf(op) = <<>>

\* the positions of the widgets of the given id in the exchange's response
PositionsOf(id) == {i \in 1..Len(last.response) : last.response[i].id = id}

Min(S) == CHOOSE x \in S : \A y \in S : x <= y

\* C24: after an exchange whose response has widgets of kind TIMESERIES, the
\* held time series descriptor is the first of them in response order.
C24_FirstTimeSeriesWins ==
    (ExchangeDone /\ PositionsOf("TIMESERIES") # {}) =>
        interest_over_time_widget = last.response[Min(PositionsOf("TIMESERIES"))]

\* C25: after an exchange whose response has widgets of kind GEO_MAP, the held
\* region descriptor is the first of them in response order; and a
\* build_payload call fails only in validation, in the comparison items, in
\* _get_data or on a response without widgets, never in the widget loop.
C25_FirstGeoMapWins ==
    /\ (ExchangeDone /\ PositionsOf("GEO_MAP") # {}) =>
          interest_by_region_widget = last.response[Min(PositionsOf("GEO_MAP"))]
    /\ (last.op = "build_payload" /\ last.exc # "") =>
          last.why \in {"validation", "timeframe", "request", "429", "status", "json",
                        "proxy", "widgets"}

\* the response of the exchange had two GEO_MAP widgets and the first is held
C25_Witness ==
    /\ ExchangeDone
    /\ PositionsOf("GEO_MAP") = {1, 2}
    /\ last.response[1] # last.response[2]
    /\ interest_by_region_widget = last.response[1]

\* C2: on a client on which no build_payload has completed, every pull fails
\* with the error that names build_payload and sends no request.
C2_PullBeforeBuildRefused ==
    (phase = "ready" /\ ~built /\ last.op \in Pulls) =>
        /\ last.exc = "ResponseError"
        /\ last.why = "build_payload"
        /\ last.sent = <<>>

\* a pull was refused after a build_payload that stored its query and failed
C2_Witness ==
    /\ ~built
    /\ kw_list # <<>>
    /\ last.op = "related_topics"
    /\ last.why = "build_payload"

\* C10 as stated: a pull that directly follows a pull of the same view sends
\* none of the tokens that pull sent.
C10_TokenSentOnce ==
    [][(last.op \in Pulls /\ last'.op = last.op)
          => Range(SentTokens(last')) \cap Range(SentTokens(last)) = {}]_vars

\* C10 amended: a pull sends the tokens of the held descriptors of its view,
\* in order and each once (all of them when no request fails), and the
\* descriptors stay held, so that the next pull of the view sends them again.
C10_PullSendsHeldTokens ==
    (last.op \in Pulls /\ last.why # "build_payload") =>
        LET held == HeldOf(last.op)
            sent == SentTokens(last)
        IN  /\ Len(sent) <= Len(held)
            /\ Len(sent) >= 1
            /\ \A i \in 1..Len(sent) : sent[i] = held[i].token
            /\ last.why \in {"ok", "decode", "default"} => Len(sent) = Len(held)

\* a related pull has sent the tokens of two held descriptors
C10_Witness ==
    /\ last.op = "related_queries"
    /\ last.why = "ok"
    /\ Len(SentTokens(last)) = 2
    /\ Len(related_queries_widget_list) = 2

----------------------------------------------------------------------------
(* The payload builder: build_payload over keyword lists of every length,   *)
(* single and multiple geographies, single and multirange time ranges      *)

MaxTimeframes == 3

GeoArgs == {Str(""), Str("US")} \cup {List(SubSeq(GeoCodes, 1, m)) : m \in 2..MaxGeos}

TimeframeLists == {List([i \in 1..k |-> i]) : k \in 0..MaxTimeframes}

PayloadArgs ==
    {BuildArgs(KwPrefix(n), 0, DefaultTimeframe, g, "")
        : n \in 0..(MAX_KEYWORDS + 1), g \in GeoArgs}
    \cup {BuildArgs(<<"k1", "k1">>, 0, DefaultTimeframe, g, "") : g \in GeoArgs}
    \cup {BuildArgs(KwPrefix(n), 0, tf, g, "")
            : n \in 1..2, g \in GeoArgs, tf \in TimeframeLists}
    \cup {BuildArgs(KwPrefix(n), 0, DefaultTimeframe, Str(""), gprop)
            : n \in {0, 1, MAX_KEYWORDS + 1}, gprop \in {"news", "web"}}

InitPayload ==
    InitWith({DEFAULT_RETRIES}, {DEFAULT_BACKOFF_FACTOR}, {<<>>}, {FALSE},
             {Str(""), Str("GB")},
             {[http |-> {HttpOk, HttpConn}, fetch |-> {"nid1"}]})

PayloadBuild ==
    \E a \in PayloadArgs :
        BuildPayload(a.kw_list, a.cat, a.timeframe, a.geo, a.gprop,
                     ExploreAnswers({<<[id |-> "TIMESERIES", meta |-> FALSE]>>}))

NextPayload ==
    \/ Construct
    \/ PayloadBuild

SpecPayload == InitPayload /\ [][NextPayload]_vars

IsBuild == last.op = "build_payload"

ExploreRequests(call) == SelectSeq(call.sent, LAMBDA q : q.url = "explore")

\* C3: build_payload fails with ValueError, before any request, exactly when
\* the keyword list has 0 or more than 5 keywords or gprop is outside the
\* enumeration.
C3_ValidationRejects ==
    IsBuild =>
        LET bad == \/ Len(last.args.kw_list) = 0
                   \/ Len(last.args.kw_list) > 5
                   \/ last.args.gprop \notin {"", "images", "news", "youtube", "froogle"}
        IN  /\ bad => (last.exc = "ValueError" /\ last.sent = <<>>)
            /\ ~bad => last.why # "validation"

\* a list of six keywords was rejected, and one of five was sent
C3_Witness ==
    /\ IsBuild
    /\ Len(last.args.kw_list) = 6
    /\ last.exc = "ValueError"
    /\ Len(kw_list) = 5
    /\ token_payload.dumped

\* C6: with a single time range t the explore request carries n*m comparison
\* items, the item at 0-based position (i-1)*m + (j-1) being (k_i, t, g_j);
\* the geographies are those of the call, or the stored ones when it names none.
C6_ItemsKeywordMajor ==
    (IsBuild /\ ~last.args.timeframe.list /\ ExploreRequests(last) # <<>>) =>
        LET items == ExploreRequests(last)[1].items
            k == last.args.kw_list
            g == GeoList(geo)
            n == Len(k)
            m == Len(g)
        IN  /\ Truthy(last.args.geo) => geo = last.args.geo
            /\ Len(items) = n * m
            /\ \A i \in 1..n, j \in 1..m :
                  items[(i - 1) * m + (j - 1) + 1] =
                      [keyword |-> k[i], time |-> last.args.timeframe.v[1], geo |-> g[j]]

\* two keywords and two geographies were sent
C6_Witness ==
    /\ IsBuild
    /\ ~last.args.timeframe.list
    /\ ExploreRequests(last) # <<>>
    /\ Len(last.args.kw_list) = 2
    /\ last.args.geo.list
    /\ Len(last.args.geo.v) = 2

\* C7 as stated: a list of time ranges whose length differs from n*m makes
\* the call fail with IndexError and send nothing.
C7_MismatchRaises ==
    (IsBuild /\ last.why # "validation" /\ last.args.timeframe.list
       /\ Len(last.args.timeframe.v) # Len(kw_list) * Len(GeoList(geo)))
        => (last.exc = "IndexError" /\ last.sent = <<>>)

\* C7 amended: item i receives time range i; the call fails with IndexError,
\* sending nothing, exactly when the list is shorter than n*m; the time
\* ranges beyond n*m of a longer list are ignored.
C7_ShortListRaises ==
    (IsBuild /\ last.why # "validation" /\ last.args.timeframe.list) =>
        LET tf == last.args.timeframe.v
            nm == Len(last.args.kw_list) * Len(GeoList(geo))
        IN  /\ (Len(tf) < nm) <=> (last.exc = "IndexError")
            /\ last.exc = "IndexError" => last.sent = <<>>
            /\ Len(tf) >= nm =>
                  /\ ExploreRequests(last) # <<>>
                  /\ Len(ExploreRequests(last)[1].items) = nm
                  /\ \A i \in 1..nm : ExploreRequests(last)[1].items[i].time = tf[i]

\* a list of three time ranges was sent with two comparison items
C7_Witness ==
    /\ IsBuild
    /\ last.args.timeframe.list
    /\ Len(last.args.timeframe.v) = 3
    /\ ExploreRequests(last) # <<>>
    /\ Len(ExploreRequests(last)[1].items) = 2

\* the arguments validation rejects: a keyword count outside 1..5, or a gprop
\* outside the enumeration
Rejected(args) ==
    \/ Len(args.kw_list) = 0
    \/ Len(args.kw_list) > MAX_KEYWORDS
    \/ args.gprop \notin VALID_GPROP

\* C27: a build_payload call that validation rejects leaves kw_list, geo,
\* token_payload and the four descriptor holders as they were.
C27_RejectedBuildChangesNothing ==
    [][(last'.op = "build_payload" /\ (last'.why = "validation" \/ Rejected(last'.args)))
          => /\ last'.exc = "ValueError"
             /\ UNCHANGED <<kw_list, geo, token_payload>>
             /\ UNCHANGED widgets
             /\ UNCHANGED built]_vars

\* after a completed build a call with too many keywords was rejected: the
\* query and the time series descriptor of the completed build are still held
C27_Witness ==
    /\ last.op = "build_payload"
    /\ last.why = "validation"
    /\ Len(last.args.kw_list) > MAX_KEYWORDS
    /\ built
    /\ kw_list # <<>>
    /\ Len(kw_list) <= MAX_KEYWORDS
    /\ Held(interest_over_time_widget)

----------------------------------------------------------------------------
(* The time series decoder: interest_over_time over responses whose rows    *)
(* vary in order, in the number and width of their values and in their     *)
(* partial-data flags                                                       *)

DecodeKws == {KwPrefix(n) : n \in 1..MaxKwDecode} \cup {<<"k1", "k1">>}

DecodeGeos == {Str(""), List(<<"US">>)} \cup {List(SubSeq(GeoCodes, 1, m)) : m \in 2..MaxGeos}

\* the row of time t with len values base + t, base + t + 1, ...
ValuesRow(t, base, len, flag) ==
    [time |-> t, value |-> [i \in 1..len |-> base + t + i - 1], isPartial |-> flag]

RowLens(nm) == {nm - 1, nm, nm + 1}

Flags == {NoFlag, Flag(TRUE), Flag(FALSE)}

\* responses for nm comparison items: rows oldest or newest first, one of
\* them of any width; rows of the right width with any flags; three rows
\* with mixed flags and with the flag false throughout; a row of three-digit
\* values; a row with two flags
DecodeTimelines(nm) ==
    UNION {{[r \in 1..k |-> ValuesRow(IF asc THEN r ELSE k + 1 - r, 8,
                                      IF r = j THEN len ELSE nm, NoFlag)]
              : j \in 1..k, len \in RowLens(nm), asc \in BOOLEAN}
           : k \in 0..MaxRows}
    \cup {[r \in 1..MaxRows |-> ValuesRow(r, 50, nm, flags[r])] : flags \in [1..MaxRows -> Flags]}
    \cup {[r \in 1..3 |-> ValuesRow(r, 50, nm, flags[r])]
            : flags \in {<<NoFlag, Flag(FALSE), Flag(TRUE)>>,
                         <<Flag(FALSE), Flag(FALSE), Flag(FALSE)>>}}
    \cup {<<ValuesRow(1, 98, nm, NoFlag)>>}
    \cup {<<ValuesRow(1, 50, nm, [present |-> TRUE, v |-> <<FALSE, FALSE>>])>>}

InitDecode ==
    InitWith({DEFAULT_RETRIES}, {DEFAULT_BACKOFF_FACTOR}, {<<>>}, {FALSE}, {Str("")},
             {[http |-> {HttpOk}, fetch |-> {"nid1"}]})

DecodeBuild ==
    \E kw \in DecodeKws, g \in DecodeGeos :
        BuildPayload(kw, 0, DefaultTimeframe, g, "",
                     ExploreAnswers({<<[id |-> "TIMESERIES", meta |-> FALSE]>>}))

DecodeTimeSeries ==
    InterestOverTime(DataAnswers(DecodeTimelines(Len(kw_list) * Len(GeoList(geo)))))

NextDecode ==
    \/ Construct
    \/ DecodeBuild
    \/ DecodeTimeSeries

SpecDecode == InitDecode /\ [][NextDecode]_vars

\* interest_over_time got an answer that has the timelineData list
Answered == last.op = "interest_over_time" /\ last.why \in {"ok", "decode"}

Items == Len(kw_list) * Len(GeoList(geo))

\* every row of the response has one value per comparison item and at most
\* one partial-data flag
WellFormed(timelineData) ==
    \A r \in 1..Len(timelineData) :
        /\ Len(timelineData[r].value) = Items
        /\ timelineData[r].isPartial.present => Len(timelineData[r].isPartial.v) = 1

\* the label of comparison item i (1-based), keyword-major
ItemLabel(i) ==
    LET m == Len(GeoList(geo))
        kw == kw_list[((i - 1) \div m) + 1]
        g == GeoList(geo)[((i - 1) % m) + 1]
    IN  IF m = 1 THEN StrLabel(kw) ELSE TupleLabel(<<kw, g>>)

PartialLabels == {StrLabel("isPartial"), TupleLabel(<<"isPartial">>)}

\* C4: on a non-empty well-formed response interest_over_time returns a table
\* whose data columns, isPartial excluded, are the keyword-count times
\* geography-count labels of the comparison items.
C4_ColumnPerItem ==
    (Answered /\ last.response # <<>> /\ WellFormed(last.response)) =>
        /\ last.exc = ""
        /\ Cardinality(Range(last.result.columns) \ PartialLabels) = Items
        /\ Range(last.result.columns) \ PartialLabels = {ItemLabel(i) : i \in 1..Items}

\* C5: the table has one row per entry of the response, and the row of an
\* entry holds in the column of comparison item i the i-th value of the entry;
\* a well-formed response for pairwise distinct comparison items is decoded.
C5_RowPerEntry ==
    Answered =>
        /\ (last.exc = "") =>
              /\ Len(last.result.index) = Len(last.response)
              /\ Len(last.result.data) = Len(last.response)
              /\ \A e \in 1..Len(last.response) :
                    \E r \in 1..Len(last.result.index) :
                        /\ last.result.index[r] = last.response[e].time
                        /\ \A i \in 1..Items :
                              \E c \in 1..Len(last.result.columns) :
                                  /\ last.result.columns[c] = ItemLabel(i)
                                  /\ last.result.data[r][c] = IntCell(last.response[e].value[i])
        /\ (WellFormed(last.response)
              /\ Cardinality({ItemLabel(i) : i \in 1..Items}) = Items) => last.exc = ""

\* two entries, newest first, were decoded for two keywords and two geographies
C5_Witness ==
    /\ Answered
    /\ last.exc = ""
    /\ Len(last.response) = 2
    /\ last.response[1].time > last.response[2].time
    /\ Len(kw_list) = 2
    /\ Len(GeoList(geo)) = 2
    /\ last.result.data[1][1] = IntCell(9)

\* the column of the partial-data indicator in the returned table
PartialColumn == CHOOSE c \in 1..Len(last.result.columns) : last.result.columns[c] \in PartialLabels

\* the entry carries a true partial-data flag
TrueFlag(entry) == entry.isPartial.present /\ TRUE \in Range(entry.isPartial.v)

\* C17: in the table interest_over_time returns for a non-empty response there
\* is one isPartial column, and the row of an entry holds true in it exactly
\* when the entry carries a true partial-data flag: entries without a flag,
\* and all entries of a response without flags, get false.
C17_PartialFlags ==
    (Answered /\ last.exc = "" /\ last.response # <<>>) =>
        /\ Cardinality({c \in 1..Len(last.result.columns) :
                           last.result.columns[c] \in PartialLabels}) = 1
        /\ \A e \in 1..Len(last.response) :
              \E r \in 1..Len(last.result.index) :
                  /\ last.result.index[r] = last.response[e].time
                  /\ last.result.data[r][PartialColumn] = BoolCell(TrueFlag(last.response[e]))

\* a response of three entries, the first without a flag, the second flagged
\* false and the third flagged true, was decoded: only the third row is partial
C17_Witness ==
    /\ Answered
    /\ last.exc = ""
    /\ Len(last.response) = 3
    /\ ~last.response[1].isPartial.present
    /\ last.response[2].isPartial = Flag(FALSE)
    /\ last.response[3].isPartial = Flag(TRUE)
    /\ [r \in 1..3 |-> last.result.data[r][PartialColumn]]
         = <<BoolCell(FALSE), BoolCell(FALSE), BoolCell(TRUE)>>

----------------------------------------------------------------------------
(* The network: build_payload's explore exchange under every retry         *)
(* configuration and rate limiting, and under proxy pools whose proxies    *)
(* fail                                                                     *)

ProxyNames == {"p1", "p2"}

ProxyLists == SeqsUpTo(ProxyNames, MaxProxies)

\* clients without proxies against an upstream that answers anything, and
\* default clients with proxies whose credential fetches can fail
InitNet ==
    \/ InitWith({0, DEFAULT_RETRIES}, {0, DEFAULT_BACKOFF_FACTOR}, {<<>>}, {FALSE},
                {Str("")}, {[http |-> HttpOutcomes, fetch |-> {"nid1"}]})
    \/ InitWith({DEFAULT_RETRIES}, {DEFAULT_BACKOFF_FACTOR}, ProxyLists, BOOLEAN,
                {Str("")},
                {[http |-> {HttpOk}, fetch |-> AllFetchOutcomes]})

NetBuild ==
    \E kw \in {KwPrefix(1)} :
        BuildPayload(kw, 0, DefaultTimeframe, Str(""), "",
                     ExploreAnswers({<<[id |-> "TIMESERIES", meta |-> FALSE]>>}))

NextNet ==
    \/ Construct
    \/ NetBuild

SpecNet == InitNet /\ [][NextNet]_vars

\* the requests a call sent through _get_data's session
SessionRequests(call) == SelectSeq(call.sent, LAMBDA q : q.url # "cookie")

\* the call's _get_data sent its request and every attempt was answered 429
RateLimited ==
    /\ last.op = "build_payload"
    /\ SessionRequests(last) # <<>>
    /\ last.all429

\* C8: a _get_data call whose every attempt is answered HTTP 429 fails with
\* TooManyRequestsError, under every retry count and backoff factor.
C8_RateLimitError == RateLimited => last.exc = "TooManyRequestsError"

\* C9 as stated: credential acquisition raises nothing, so no constructor and
\* no _get_data call ends with its "No working proxies available" error.
C9_NeverRaises == last.why # "proxy"

LastFetch == last.fetches[Len(last.fetches)]

\* C9: credential acquisition raises ResponseError exactly when a fetch fails
\* with a proxy error while the pool holds at most one proxy, and that fetch
\* is its last; otherwise it ends with a credential or the empty credential,
\* and a fetch that did not fail on the proxy never aborts the caller.
C9_RaisesOnLastProxy ==
    last.op \in {"__init__", "build_payload"} =>
        /\ (last.why = "proxy") <=>
              /\ last.fetches # <<>>
              /\ LastFetch.outcome = "ProxyError"
              /\ LastFetch.pool <= 1
        /\ \A i \in 1..(Len(last.fetches) - 1) :
              ~(last.fetches[i].outcome = "ProxyError" /\ last.fetches[i].pool <= 1)
        /\ (last.why = "proxy") =>
              /\ last.exc = "ResponseError"
              /\ SessionRequests(last) = <<>>
        /\ (last.why # "proxy" /\ last.fetches # <<>>) => cookies \in Creds \cup {""}
        /\ (last.op = "__init__" /\ last.why # "proxy") => phase = "ready"

\* inside _get_data the first proxy failed and was dropped, then the last
\* remaining one failed too: build_payload was aborted
C9_Witness ==
    /\ last.op = "build_payload"
    /\ last.why = "proxy"
    /\ Len(last.fetches) = 2
    /\ last.fetches[1].pool = 2
    /\ Len(proxies) = 1

\* C20: a fetch that fails with a proxy error while the pool holds more than
\* one proxy is followed by a retry on a pool without that proxy, at the same
\* index or at 0 when the index passed the end, and the retry is free: it has
\* the attempt number of the failed fetch and follows no sleep.  A fetch that
\* fails with a proxy error on a pool of at most one proxy ends the call with
\* the terminal error.
C20_ProxyRetryIsFree ==
    last.op \in {"__init__", "build_payload"} =>
        \A i \in 1..Len(last.fetches) :
            LET f == last.fetches[i]
            IN  f.outcome = "ProxyError" =>
                  IF f.pool > 1
                  THEN /\ i < Len(last.fetches)
                       /\ last.fetches[i + 1].pool = f.pool - 1
                       /\ last.fetches[i + 1].index = (IF f.index >= f.pool - 1 THEN 0 ELSE f.index)
                       /\ last.fetches[i + 1].attempt = f.attempt
                       /\ last.fetches[i + 1].slept = 0
                  ELSE /\ i = Len(last.fetches)
                       /\ last.why = "proxy"

----------------------------------------------------------------------------
(* The region decoder: interest_by_region over responses whose rows vary   *)
(* in order and width, with and without the geography code column, and     *)
(* under every resolution                                                   *)

\* the row of a location, its values following the rank of its name
RegionValuesRow(name, len) ==
    [geoName |-> name, code |-> <<"U", "S">>,
     value |-> [i \in 1..len |-> 8 + NameRank(name) + i - 1]]

\* responses for nm comparison items: locations in ascending or descending
\* order of their names, one row of any width, under each geography column
RegionMaps(nm) ==
    UNION {{[geo_column |-> gc,
             rows |-> [r \in 1..k |->
                         RegionValuesRow(RegionNames[IF asc THEN r ELSE k + 1 - r],
                                         IF r = j THEN len ELSE nm)]]
              : j \in 1..k, len \in RowLens(nm), asc \in BOOLEAN, gc \in {"geoCode"}}
           : k \in 0..MaxRows}
    \cup {[geo_column |-> gc, rows |-> <<RegionValuesRow(RegionNames[1], nm)>>]
            : gc \in {"coordinates", ""}}

Resolutions == {"REGION", "PLANET"}

RegionGeos == DecodeGeos \cup {Str("US")}

InitRegion ==
    InitWith({DEFAULT_RETRIES}, {DEFAULT_BACKOFF_FACTOR}, {<<>>}, {FALSE}, {Str("")},
             {[http |-> {HttpOk}, fetch |-> {"nid1"}]})

RegionBuild ==
    \E kw \in DecodeKws, g \in RegionGeos :
        BuildPayload(kw, 0, DefaultTimeframe, g, "",
                     ExploreAnswers({<<[id |-> "GEO_MAP", meta |-> FALSE]>>}))

\* the pulls that vary the response
RegionDecode ==
    \E inc_geo_code \in BOOLEAN :
        InterestByRegion("COUNTRY", FALSE, inc_geo_code,
                         DataAnswers(RegionMaps(Len(kw_list) * Len(GeoList(geo)))))

\* the pulls that vary the resolution
RegionResolve ==
    \E resolution \in Resolutions :
        InterestByRegion(resolution, TRUE, FALSE,
                         DataAnswers({[geo_column |-> "geoCode",
                                       rows |-> <<RegionValuesRow(RegionNames[1],
                                                    Len(kw_list) * Len(GeoList(geo)))>>]}))

NextRegion ==
    \/ Construct
    \/ RegionBuild
    \/ RegionDecode
    \/ RegionResolve

SpecRegion == InitRegion /\ [][NextRegion]_vars

\* interest_by_region got an answer that has the geoMapData list
RegionAnswered == last.op = "interest_by_region" /\ last.why \in {"ok", "decode"}

\* every row of the response has one value per comparison item, and the rows
\* carry a geography column
RegionWellFormed(geoMapData) ==
    /\ geoMapData.geo_column # ""
    /\ \A r \in 1..Len(geoMapData.rows) : Len(geoMapData.rows[r].value) = Items

GeoColumnLabels == {StrLabel("geoCode"), StrLabel("coordinates")}

\* C11: on a non-empty well-formed response interest_by_region returns one
\* row per entry, indexed by location name in ascending order, with one
\* integer column per comparison item, in keyword-major order, holding the
\* item's value of that location, and the geography column exactly when
\* inc_geo_code is set.
C11_RegionColumnPerItem ==
    (RegionAnswered /\ last.response.rows # <<>> /\ RegionWellFormed(last.response)) =>
        /\ last.exc = ""
        /\ Len(last.result.index) = Len(last.response.rows)
        /\ \A r \in 1..(Len(last.result.index) - 1) :
              NameRank(last.result.index[r]) < NameRank(last.result.index[r + 1])
        /\ LET data == SelectSeq(last.result.columns, LAMBDA c : c \notin GeoColumnLabels)
           IN  /\ Len(data) = Items
               /\ \A e \in 1..Len(last.response.rows) :
                     \E r \in 1..Len(last.result.index) :
                         /\ last.result.index[r] = last.response.rows[e].geoName
                         /\ \A i \in 1..Items :
                               \E c \in 1..Len(last.result.columns) :
                                   /\ last.result.columns[c] = data[i]
                                   /\ last.result.data[r][c] =
                                         IntCell(last.response.rows[e].value[i])
        /\ (Range(last.result.columns) \cap GeoColumnLabels # {}) <=> last.args.inc_geo_code

\* C12: interest_by_region called with a resolution outside COUNTRY, REGION,
\* CITY, DMA fails with ValueError and sends no request.
C12_ResolutionValidated ==
    (last.op = "interest_by_region"
       /\ last.args.resolution \notin {"COUNTRY", "REGION", "CITY", "DMA"}) =>
        /\ last.exc \in {"ValueError", "ResponseError"}
        /\ last.sent = <<>>

----------------------------------------------------------------------------
(* The related views: related_topics and related_queries over responses    *)
(* whose ranked lists are missing, empty or filled                         *)

\* the widget lists of the explore response: related widgets only
RelatedWidgets ==
    {[id |-> i, meta |-> m] : i \in {"RELATED_TOPICS", "RELATED_QUERIES"}, m \in BOOLEAN}

RelatedShapes == SeqsUpTo(RelatedWidgets, MaxWidgets) \ {<<>>}

\* the answers of the related endpoint: each list missing or filled, or
\* both empty
RankedAnswers ==
    {[top |-> t, rising |-> r] : t \in {"missing", "rows"}, r \in {"missing", "rows"}}
    \cup {[top |-> "empty", rising |-> "empty"]}

InitRelated ==
    InitWith({DEFAULT_RETRIES}, {DEFAULT_BACKOFF_FACTOR}, {<<>>}, {FALSE}, {Str("")},
             {[http |-> {HttpOk}, fetch |-> {"nid1"}]})

RelatedBuild ==
    \E kw \in {KwPrefix(2)} :
        BuildPayload(kw, 0, DefaultTimeframe, Str(""), "", ExploreAnswers(RelatedShapes))

RelatedTopicsPull == RelatedTopics(RankedAnswers)

RelatedQueriesPull == RelatedQueries(RankedAnswers)

NextRelated ==
    \/ Construct
    \/ RelatedBuild
    \/ RelatedTopicsPull
    \/ RelatedQueriesPull

SpecRelated == InitRelated /\ [][NextRelated]_vars

\* a related pull all of whose data requests succeeded
RelatedAnswered ==
    /\ last.op \in {"related_topics", "related_queries"}
    /\ last.why = "ok"

\* the entry of result_dict under a key
ResultOf(key) ==
    (CHOOSE e \in Range(last.result) : e.key = key).value

\* the answer that decided the entry of a key: that of the last held
\* descriptor of the key's keyword
AnswerOf(key) ==
    LET held == HeldOf(last.op)
        w == Max({i \in 1..Len(held) : WidgetKeyword(held[i]) = key})
    IN  last.response[w]

\* C13: in a related pull whose data requests succeeded the call does not
\* fail, every keyword of a held descriptor has an entry, a missing top or
\* rising list makes that half null, and a filled list is decoded whatever
\* the other list is.
C13_MissingHalfIsNull ==
    RelatedAnswered =>
        /\ last.exc = ""
        /\ \A i \in 1..Len(HeldOf(last.op)) :
              LET key == WidgetKeyword(HeldOf(last.op)[i])
              IN  /\ \E e \in Range(last.result) : e.key = key
                  /\ AnswerOf(key).top = "missing" => ResultOf(key).top = "None"
                  /\ AnswerOf(key).rising = "missing" => ResultOf(key).rising = "None"
                  /\ AnswerOf(key).top = "rows" => ResultOf(key).top = "rows"
                  /\ AnswerOf(key).rising = "rows" => ResultOf(key).rising = "rows"

\* related_topics decoded the rising list of a keyword whose top list was
\* missing, and both lists of another keyword
C13_Witness ==
    /\ RelatedAnswered
    /\ last.op = "related_topics"
    /\ Len(last.result) = 2
    /\ last.result[1].value = [top |-> "None", rising |-> "rows"]
    /\ last.result[2].value = [top |-> "rows", rising |-> "rows"]

\* the keywords recovered from the held descriptors of the pulled view
HeldKeywords == {WidgetKeyword(w) : w \in Range(HeldOf(last.op))}

\* C26 as stated: a related pull sends one data request per held descriptor,
\* in the order held, and returns one entry per held descriptor, the i-th
\* keyed by the keyword of the i-th descriptor.
C26_EntryPerDescriptor ==
    RelatedAnswered =>
        /\ SentTokens(last) = [i \in 1..Len(HeldOf(last.op)) |-> HeldOf(last.op)[i].token]
        /\ Len(last.result) = Len(HeldOf(last.op))
        /\ \A i \in 1..Len(last.result) : last.result[i].key = WidgetKeyword(HeldOf(last.op)[i])

\* C26: the exchange accumulates the related descriptors in response order; a
\* related pull sends one data request per held descriptor, in the order
\* held; the returned map has one entry per distinct keyword recovered from
\* the held descriptors ("" when there is none), in order of first
\* occurrence, and descriptors with the same keyword share one entry.
C26_EntryPerKeyword ==
    /\ ExchangeDone =>
          /\ related_topics_widget_list
                = SelectSeq(last.response, LAMBDA w : w.id \in RelatedTopicsIds)
          /\ related_queries_widget_list
                = SelectSeq(last.response, LAMBDA w : w.id \in RelatedQueriesIds)
    /\ RelatedAnswered =>
          /\ SentTokens(last) = [i \in 1..Len(HeldOf(last.op)) |-> HeldOf(last.op)[i].token]
          /\ {last.result[i].key : i \in 1..Len(last.result)} = HeldKeywords
          /\ Len(last.result) = Cardinality(HeldKeywords)
          /\ \A i \in 1..Len(HeldOf(last.op)) :
                HeldOf(last.op)[i].request.keyword = <<>> =>
                    \E e \in Range(last.result) : e.key = ""
          /\ \A i, j \in 1..Len(last.result) :
                i < j => \E a \in 1..Len(HeldOf(last.op)) :
                            /\ WidgetKeyword(HeldOf(last.op)[a]) = last.result[i].key
                            /\ \A b \in 1..a : WidgetKeyword(HeldOf(last.op)[b]) # last.result[j].key

\* two descriptors without a recoverable keyword were pulled with two
\* requests and share the entry of the empty keyword
C26_Witness ==
    /\ RelatedAnswered
    /\ Len(HeldOf(last.op)) = 2
    /\ Len(SentTokens(last)) = 2
    /\ Len(last.result) = 1
    /\ last.result[1].key = ""

----------------------------------------------------------------------------
(* The best-effort views: trending_searches, today_searches,               *)
(* realtime_trending_searches, top_charts and suggestions                  *)

\* a step into the parsed JSON: a dict key or a list index
Key(k) == [kind |-> "key", k |-> k]
Index(n) == [kind |-> "index", k |-> IntStr(n)]

\* A payload seen along the path a view follows: the first `depth` steps of
\* the path are present, and when all are, rows is the list found there,
\* one flag per element (whether the element has the key read from it)
PathPayloads(path) ==
    {[depth |-> d, rows |-> <<>>] : d \in 0..Len(path)}
    \cup {[depth |-> Len(path), rows |-> rows] : rows \in SeqsUpTo(BOOLEAN, MaxRows)}

\* req_json[k1][k2]...: the exception of the first absent step, "" for none
Lookup(path, payload) ==
    IF payload.depth >= Len(path) THEN ""
    ELSE IF path[payload.depth + 1].kind = "key" THEN "KeyError" ELSE "IndexError"

\* what a view returns or raises
Returned(kind, n) == [exc |-> "", kind |-> kind, rows |-> n]
Raised(exc) == [exc |-> exc, kind |-> "", rows |-> 0]

\* try: ... except caught: return fallback
Try(outcome, caught, fallback) ==
    IF outcome.exc \in caught THEN fallback ELSE outcome

\* trending_searches, lines 666-673: payload is the set of countries of the
\* response, each with rows
Countries == {"united_states", "japan"}

TrendingPayloads ==
    {[countries |-> cs, rows |-> n] : cs \in SUBSET Countries, n \in 0..MaxRows}

TrendingSearchesDecode(pn, payload) ==
    IF pn \notin payload.countries THEN Raised("InvalidParameterError")
    ELSE Returned("frame", payload.rows)

\* today_searches, lines 699-704
TodayPath == <<Key("default"), Key("trendingSearchesDays"), Index(0), Key("trendingSearches")>>

TodaySearchesBody(payload) ==
    IF Lookup(TodayPath, payload) # "" THEN Raised(Lookup(TodayPath, payload))
    ELSE IF \E r \in 1..Len(payload.rows) : ~payload.rows[r] THEN Raised("KeyError")
    ELSE IF payload.rows = <<>> THEN Raised("IndexError")   \* iloc[:, -1] of no columns
    ELSE Returned("series", Len(payload.rows))

TodaySearchesDecodeKeyOnly(payload) ==
    Try(TodaySearchesBody(payload), {"KeyError"}, Returned("frame", 0))

TodaySearchesDecode(payload) ==
    Try(TodaySearchesBody(payload), {"KeyError", "IndexError"}, Returned("frame", 0))

\* realtime_trending_searches, lines 742-754
RealtimePath == <<Key("storySummaries"), Key("trendingStories")>>

RealtimeDecode(payload) ==
    Try(IF Lookup(RealtimePath, payload) # "" THEN Raised(Lookup(RealtimePath, payload))
        ELSE Returned("frame", Len(payload.rows)),
        {"KeyError"}, Returned("frame", 0))

\* top_charts, lines 789-792
TopChartsPath == <<Key("topCharts"), Index(0), Key("listItems")>>

TopChartsDecode(payload) ==
    Try(IF Lookup(TopChartsPath, payload) # "" THEN Raised(Lookup(TopChartsPath, payload))
        ELSE Returned("frame", Len(payload.rows)),
        {"KeyError", "IndexError"}, Returned("None", 0))

\* suggestions, line 816: req_json.get("default", {}).get("topics", [])
SuggestionsPath == <<Key("default"), Key("topics")>>

SuggestionsDecode(payload) ==
    IF Lookup(SuggestionsPath, payload) # "" THEN Returned("list", 0)
    ELSE Returned("list", Len(payload.rows))

\* A view: one _get_data call, then the decoding of the payload.  Outcomes
\* pairs every payload the endpoint can answer with what the view makes of it.
ViewCall(op, args, url, Outcomes) ==
    /\ phase = "ready"
    /\ \E r \in GetData(url, NoToken, <<>>, cookies, proxies, proxy_index) :
         /\ cookies' = r.cookies
         /\ proxies' = r.proxies
         /\ proxy_index' = r.proxy_index
         /\ IF r.exc # ""
            THEN last' = Ended(op, args, r.exc, r.why, r)
            ELSE \E o \in Outcomes :
                   last' = [op |-> op, args |-> args, exc |-> o.out.exc,
                            why |-> IF o.out.exc = "" THEN "ok" ELSE "decode",
                            sent |-> r.sent, all429 |-> r.all429, fetches |-> r.fetches,
                            response |-> o.payload, result |-> o.out]
    /\ UNCHANGED <<config, query, widgets, exchanges, built, phase>>

TrendingSearches ==
    \E pn \in Countries \cup {"atlantis"} :
        ViewCall("trending_searches", [pn |-> pn], "hottrends",
                 {[payload |-> p, out |-> TrendingSearchesDecode(pn, p)] : p \in TrendingPayloads})

TodaySearches ==
    ViewCall("today_searches", <<>>, "dailytrends",
             {[payload |-> p, out |-> TodaySearchesDecode(p)] : p \in PathPayloads(TodayPath)})

RealtimeTrendingSearches ==
    ViewCall("realtime_trending_searches", <<>>, "realtimetrends",
             {[payload |-> p, out |-> RealtimeDecode(p)] : p \in PathPayloads(RealtimePath)})

\* lines 776-780: int(date) fails before any request
TopCharts ==
    \E year \in BOOLEAN :
        IF ~year
        THEN /\ phase = "ready"
             /\ last' = Refused("top_charts", [date |-> year], "ValueError", "validation")
             /\ UNCHANGED <<config, query, widgets, exchanges, built, phase,
                            cookies, proxies, proxy_index>>
        ELSE ViewCall("top_charts", [date |-> year], "topcharts",
                      {[payload |-> p, out |-> TopChartsDecode(p)]
                         : p \in PathPayloads(TopChartsPath)})

Suggestions ==
    ViewCall("suggestions", <<>>, "autocomplete",
             {[payload |-> p, out |-> SuggestionsDecode(p)] : p \in PathPayloads(SuggestionsPath)})

InitViews ==
    InitWith({0, DEFAULT_RETRIES}, {DEFAULT_BACKOFF_FACTOR}, {<<>>}, {FALSE}, {Str("")},
             {[http |-> {HttpOk, HttpConn}, fetch |-> {"nid1"}]})

NextViews ==
    \/ Construct
    \/ TrendingSearches
    \/ TodaySearches
    \/ RealtimeTrendingSearches
    \/ TopCharts
    \/ Suggestions

SpecViews == InitViews /\ [][NextViews]_vars

Views == {"trending_searches", "today_searches", "realtime_trending_searches",
          "top_charts", "suggestions"}

PathOf(op) ==
    IF op = "today_searches" THEN TodayPath
    ELSE IF op = "realtime_trending_searches" THEN RealtimePath
    ELSE IF op = "top_charts" THEN TopChartsPath
    ELSE SuggestionsPath

\* the transport of a view succeeded: its payload was parsed
ViewAnswered == last.op \in Views /\ last.why \in {"ok", "decode"}

\* the section a view decodes is absent from the payload: the requested
\* country, a key or list element of the path, or the key read from an element
SectionAbsent ==
    IF last.op = "trending_searches" THEN last.args.pn \notin last.response.countries
    ELSE \/ last.response.depth < Len(PathOf(last.op))
         \/ (last.op = "today_searches"
               /\ \E r \in 1..Len(last.response.rows) : ~last.response.rows[r])

\* an empty table, an empty list or null
EmptyResult == last.exc = "" /\ last.result.rows = 0

\* C14 as stated: none of the five views raises when the transport succeeded
\* and the section it decodes is absent; each returns an empty table, an
\* empty list or null.
C14_AbsentSectionNeverRaises ==
    (ViewAnswered /\ SectionAbsent) => EmptyResult

\* C14: today_searches, realtime_trending_searches, top_charts and
\* suggestions return an empty table, an empty list or null when the section
\* is absent; trending_searches raises InvalidParameterError exactly when
\* the requested country is absent from the payload, and returns the
\* country's table otherwise.
C14_OnlyTrendingRaises ==
    ViewAnswered =>
        IF last.op = "trending_searches"
        THEN /\ SectionAbsent <=> last.exc = "InvalidParameterError"
             /\ ~SectionAbsent =>
                   last.exc = "" /\ last.result = Returned("frame", last.response.rows)
        ELSE /\ last.exc = ""
             /\ SectionAbsent => EmptyResult
             /\ last.result.kind =
                   (IF last.op = "suggestions" THEN "list"
                    ELSE IF last.op = "top_charts" /\ SectionAbsent THEN "None"
                    ELSE IF last.op = "today_searches" /\ ~SectionAbsent
                            /\ last.response.rows # <<>> THEN "series"
                    ELSE "frame")

\* today_searches met a list of days without its first element
C14_Witness ==
    /\ last.op = "today_searches"
    /\ ViewAnswered
    /\ last.response.depth = 2
    /\ EmptyResult

----------------------------------------------------------------------------
(* TrendsRSS: _validate_geo, _parse_rss_feed, _format_output, get_trends   *)
(* and get_trends_for_multiple_geos.  The RSS client keeps no state        *)
(* between calls; text is a sequence of characters.                        *)

\* the whole state but the record of the last call
client == <<config, query, widgets, phase, proxies, proxy_index, cookies, exchanges, built>>

LowerCase == <<"a", "b", "c", "g", "s", "u", "x">>
UpperCase == <<"A", "B", "C", "G", "S", "U", "X">>

\* str.upper(), character by character
UpperChar(c) ==
    IF \E k \in 1..Len(LowerCase) : LowerCase[k] = c
    THEN UpperCase[CHOOSE k \in 1..Len(LowerCase) : LowerCase[k] = c]
    ELSE c

Upper(text) == [k \in 1..Len(text) |-> UpperChar(text[k])]

\* config.COUNTRIES and config.US_STATES: the codes this model knows
COUNTRIES == {<<"U", "S">>, <<"G", "B">>, <<"C", "A">>}
US_STATES == {<<"U", "S", "-", "C", "A">>}

\* _validate_geo, lines 63-78: the code, or the exception raised
ValidateGeo(g) ==
    LET code == Upper(g)
    IN  IF code \in COUNTRIES \/ code \in US_STATES THEN [exc |-> "", geo |-> code]
        ELSE IF code = <<>> THEN [exc |-> "IndexError", geo |-> <<>>]   \* geo[0], line 70
        ELSE [exc |-> "InvalidParameterError", geo |-> <<>>]

\* an item's ht:approx_traffic element: absent, or with its text ("" for none)
NoTraffic == [present |-> FALSE, text |-> <<>>]
Traffic(text) == [present |-> TRUE, text |-> text]

NoneValue == [t |-> "None"]

\* lines 125-135
ParseTrafficKeepStripped(traffic) ==
    IF traffic.present /\ traffic.text # <<>>
    THEN LET traffic_str == Remove(Remove(traffic.text, "+"), ",")
         IN  IF ParseInt(traffic_str).ok THEN IntCell(ParseInt(traffic_str).n)
             ELSE TextCell(traffic_str)
    ELSE NoneValue

ParseTraffic(traffic) ==
    IF traffic.present /\ traffic.text # <<>>
    THEN LET traffic_str == Remove(Remove(traffic.text, "+"), ",")
         IN  IF ParseInt(traffic_str).ok THEN IntCell(ParseInt(traffic_str).n)
             ELSE TextCell(traffic.text)
    ELSE NoneValue

\* _parse_rss_feed, lines 104-181: one trend per item
ParseRssFeed(items) ==
    [k \in 1..Len(items) |-> [title |-> items[k].title, traffic |-> ParseTraffic(items[k].traffic)]]

OutputFormats == {"dict", "json", "csv", "dataframe"}

\* _format_output, lines 255-289
FormatOutput(trends, output_format) ==
    IF output_format \in OutputFormats
    THEN [exc |-> "", value |-> [kind |-> output_format, trends |-> trends]]
    ELSE [exc |-> "InvalidParameterError", value |-> NoneValue]

\* What the feed endpoint can answer: a failed download, text that is not
\* XML, or a feed with items
Download(kind, items) == [kind |-> kind, items |-> items]

\* get_trends, lines 218-240: what it raises or returns, and the geographies
\* it requested
GetTrends(g, output_format, download) ==
    LET v == ValidateGeo(g)
    IN  IF v.exc # "" THEN [exc |-> v.exc, value |-> NoneValue, sent |-> <<>>]
        ELSE IF download.kind \in {"error", "malformed"}
        THEN [exc |-> "DownloadError", value |-> NoneValue, sent |-> <<v.geo>>]
        ELSE LET out == FormatOutput(ParseRssFeed(download.items), output_format)
             IN  [exc |-> out.exc, value |-> out.value, sent |-> <<v.geo>>]

\* get_trends_for_multiple_geos, lines 328-337, from geography i on: the set
\* of ways the loop can end.  run carries results and the requests sent.
RECURSIVE MultipleGeosLoop(_, _, _, _, _)
MultipleGeosLoopStop(geos, output_format, Downloads, i, run) ==
    IF i > Len(geos) THEN {run}
    ELSE UNION {
        LET r == GetTrends(geos[i], output_format, d)
            value == IF r.exc = "" THEN r.value
                     ELSE IF output_format = "dict" THEN [kind |-> "dict", trends |-> <<>>]
                     ELSE NoneValue
            next == [results |-> DictSet(run.results, geos[i], value),
                     sent |-> run.sent \o r.sent,
                     downloads |-> Append(run.downloads, d)]
        IN  IF r.exc # "" THEN {next}
            ELSE MultipleGeosLoop(geos, output_format, Downloads, i + 1, next)
        : d \in Downloads}

MultipleGeosLoop(geos, output_format, Downloads, i, run) ==
    IF i > Len(geos) THEN {run}
    ELSE UNION {
        LET r == GetTrends(geos[i], output_format, d)
            value == IF r.exc = "" THEN r.value
                     ELSE IF output_format = "dict" THEN [kind |-> "dict", trends |-> <<>>]
                     ELSE NoneValue
        IN  MultipleGeosLoop(geos, output_format, Downloads, i + 1,
                [results |-> DictSet(run.results, geos[i], value),
                 sent |-> run.sent \o r.sent,
                 downloads |-> Append(run.downloads, d)])
        : d \in Downloads}

\* the calls
CallValidateGeo(g) ==
    /\ last' = [op |-> "_validate_geo", args |-> [geo |-> g], exc |-> ValidateGeo(g).exc,
                why |-> "", sent |-> <<>>, all429 |-> FALSE, fetches |-> <<>>,
                result |-> ValidateGeo(g).geo]
    /\ UNCHANGED client

CallGetTrends(g, output_format, Downloads) ==
    /\ \E d \in Downloads :
         LET r == GetTrends(g, output_format, d)
         IN  last' = [op |-> "get_trends", args |-> [geo |-> g, output_format |-> output_format],
                      exc |-> r.exc, why |-> "", sent |-> r.sent, all429 |-> FALSE,
                      fetches |-> <<>>, response |-> d, result |-> r.value]
    /\ UNCHANGED client

CallMultipleGeos(geos, output_format, Downloads) ==
    /\ \E run \in MultipleGeosLoop(geos, output_format, Downloads, 1,
                                   [results |-> <<>>, sent |-> <<>>, downloads |-> <<>>]) :
         last' = [op |-> "get_trends_for_multiple_geos",
                  args |-> [geos |-> geos, output_format |-> output_format],
                  exc |-> "", why |-> "", sent |-> run.sent, all429 |-> FALSE,
                  fetches |-> <<>>, response |-> run.downloads, result |-> run.results]
    /\ UNCHANGED client

----------------------------------------------------------------------------
(* The RSS client over geography codes in every letter case, known and     *)
(* unknown, and feeds that fail to download or to parse                    *)

\* every spelling of a text in upper and lower case
Spellings(text) ==
    {[k \in 1..Len(text) |-> IF up[k] THEN text[k] ELSE UpperChar(text[k])]
       : up \in [1..Len(text) -> BOOLEAN]}

GeoInputs ==
    Spellings(<<"u", "s">>) \cup Spellings(<<"g", "b">>)
    \cup Spellings(<<"u", "s", "-", "c", "a">>)
    \cup Spellings(<<"x", "x">>)
    \cup {<<>>, <<"u">>, <<"U", "S", "A">>, <<"U", "S", "-">>, <<"-">>}

BatchGeos == {<<"u", "s">>, <<"x", "x">>, <<>>}

OneItemFeed == <<[title |-> "t1", traffic |-> Traffic(<<"5", "0", "+">>)]>>

GeoDownloads == {Download("error", <<>>), Download("malformed", <<>>), Download("feed", OneItemFeed)}

InitRssGeo ==
    InitWith({DEFAULT_RETRIES}, {DEFAULT_BACKOFF_FACTOR}, {<<>>}, {FALSE}, {Str("")},
             {[http |-> {HttpOk}, fetch |-> {"nid1"}]})

RssValidateGeo == \E g \in GeoInputs : CallValidateGeo(g)

RssGetTrends ==
    \E g \in GeoInputs, f \in {"dict", "xml"} : CallGetTrends(g, f, GeoDownloads)

RssMultipleGeos ==
    \E geos \in SeqsUpTo(BatchGeos, MaxGeos), f \in {"dict", "json"} :
        CallMultipleGeos(geos, f, GeoDownloads)

NextRssGeo ==
    \/ RssValidateGeo
    \/ RssGetTrends
    \/ RssMultipleGeos

SpecRssGeo == InitRssGeo /\ [][NextRssGeo]_vars

\* lower-case letters and their capitals, as the codes are spelled
SameLetter(c, d) ==
    \/ c = d
    \/ <<c, d>> \in {<<"a", "A">>, <<"b", "B">>, <<"c", "C">>, <<"g", "G">>,
                     <<"s", "S">>, <<"u", "U">>, <<"x", "X">>}

\* the known code that a text spells, in any letter case
SpelledCodes(g) ==
    {code \in COUNTRIES \cup US_STATES :
        /\ Len(code) = Len(g)
        /\ \A k \in 1..Len(g) : SameLetter(g[k], code[k])}

\* C16: _validate_geo(g) returns the upper-case form of g when that form is
\* a known code, and returns a returned code unchanged; for every other
\* text it raises InvalidParameterError, and get_trends sends no request.
C16_ValidateGeo ==
    /\ last.op = "_validate_geo" =>
          IF SpelledCodes(last.args.geo) # {}
          THEN /\ last.exc = ""
               /\ last.result \in SpelledCodes(last.args.geo)
               /\ ValidateGeo(last.result) = [exc |-> "", geo |-> last.result]
          ELSE last.exc = "InvalidParameterError"
    /\ (last.op = "get_trends" /\ SpelledCodes(last.args.geo) = {}) =>
          /\ last.exc = "InvalidParameterError"
          /\ last.sent = <<>>

\* the geographies of a batch whose get_trends fails
FailsAt(k) ==
    \/ SpelledCodes(last.args.geos[k]) = {}
    \/ last.response[k].kind \in {"error", "malformed"}

\* C15: get_trends_for_multiple_geos never raises; its result has one key
\* for every requested geography, in input order; a geography whose fetch
\* fails maps to an empty list (dict format) or None, every other one to its
\* trends; and the feeds of all valid geographies are requested, in input
\* order, whatever failed before them.
C15_BatchIsolatesFailures ==
    last.op = "get_trends_for_multiple_geos" =>
        LET geos == last.args.geos
            valid == SelectSeq(geos, LAMBDA g : SpelledCodes(g) # {})
        IN  /\ last.exc = ""
            /\ {e.key : e \in Range(last.result)} = Range(geos)
            /\ Len(last.result) = Cardinality(Range(geos))
            /\ \A a, b \in 1..Len(last.result) :
                  a < b => \E k \in 1..Len(geos) :
                              /\ geos[k] = last.result[a].key
                              /\ \A j \in 1..k : geos[j] # last.result[b].key
            /\ Len(last.sent) = Len(valid)
            /\ \A k \in 1..Len(valid) : last.sent[k] \in SpelledCodes(valid[k])
            /\ \A e \in Range(last.result) :
                  LET k == Max({j \in 1..Len(geos) : geos[j] = e.key})
                  IN  IF FailsAt(k)
                      THEN e.value = (IF last.args.output_format = "dict"
                                      THEN [kind |-> "dict", trends |-> <<>>]
                                      ELSE NoneValue)
                      ELSE /\ e.value.kind = last.args.output_format
                           /\ Len(e.value.trends) = Len(last.response[k].items)

\* the first geography of a batch failed and maps to None, and the second
\* was still fetched and formatted
C15_Witness ==
    /\ last.op = "get_trends_for_multiple_geos"
    /\ Len(last.args.geos) = 2
    /\ last.args.geos[1] # last.args.geos[2]
    /\ FailsAt(1)
    /\ ~FailsAt(2)
    /\ Len(last.result) = 2
    /\ last.result[1].value = NoneValue
    /\ last.result[2].value.kind = "json"

----------------------------------------------------------------------------
(* The RSS feed parser over traffic texts of digits, separators and other  *)
(* characters                                                               *)

MaxTrafficLen == 3

TrafficAlphabet == {"5", "0", ",", "+", "N"}

TrafficTexts ==
    SeqsUpTo(TrafficAlphabet, MaxTrafficLen)
    \cup {<<"5", "0", "0", ",", "0", "0", "0", "+">>, <<"N", "/", "A">>}

\* feeds of one item with any traffic text or none, and a feed of two items
TrafficFeeds ==
    {<<[title |-> "t1", traffic |-> Traffic(text)]>> : text \in TrafficTexts}
    \cup {<<[title |-> "t1", traffic |-> NoTraffic]>>}
    \cup {<<[title |-> "t1", traffic |-> NoTraffic],
            [title |-> "t2", traffic |-> Traffic(<<"5", ",", "0">>)]>>}

InitRssFeed ==
    InitWith({DEFAULT_RETRIES}, {DEFAULT_BACKOFF_FACTOR}, {<<>>}, {FALSE}, {Str("")},
             {[http |-> {HttpOk}, fetch |-> {"nid1"}]})

RssParseFeed ==
    \E g \in {<<"U", "S">>}, f \in {"dict"} :
        CallGetTrends(g, f, {Download("feed", items) : items \in TrafficFeeds})

NextRssFeed ==
    \/ RssParseFeed

SpecRssFeed == InitRssFeed /\ [][NextRssFeed]_vars

\* the characters of a text that are neither '+' nor ','
Stripped(text) == SelectSeq(text, LAMBDA c : c \notin {"+", ","})

Numeric(text) ==
    /\ text # <<>>
    /\ \A k \in 1..Len(text) : text[k] \in {"0", "1", "2", "3", "4", "5", "6", "7", "8", "9"}

\* the number a text of digits denotes, from its last digit
RECURSIVE Denotes(_)
Denotes(text) ==
    IF text = <<>> THEN 0
    ELSE 10 * Denotes(SubSeq(text, 1, Len(text) - 1))
         + (CHOOSE d \in 0..9 : IntStr(d) = <<text[Len(text)]>>)

\* C18: the traffic of every item is the integer its text denotes once '+'
\* and ',' are removed, when that is numeric; the original text unchanged
\* when it is not; null when the element is absent or empty.
C18_TrafficParsed ==
    (last.op = "get_trends" /\ last.response.kind = "feed" /\ last.exc = "") =>
        /\ Len(last.result.trends) = Len(last.response.items)
        /\ \A k \in 1..Len(last.response.items) :
              LET traffic == last.response.items[k].traffic
                  got == last.result.trends[k].traffic
              IN  IF ~traffic.present \/ traffic.text = <<>> THEN got = NoneValue
                  ELSE IF Numeric(Stripped(traffic.text))
                  THEN got = IntCell(Denotes(Stripped(traffic.text)))
                  ELSE got = TextCell(traffic.text)

\* '500,000+' was parsed as 500000
C18_Witness ==
    /\ last.op = "get_trends"
    /\ last.exc = ""
    /\ Len(last.response.items) = 1
    /\ last.response.items[1].traffic.text = <<"5", "0", "0", ",", "0", "0", "0", "+">>
    /\ last.result.trends[1].traffic = IntCell(500000)

----------------------------------------------------------------------------
(* Rebuilding the query: build_payload calls with differing keyword lists   *)
(* and geographies over a transport that can fail, and the time series     *)
(* pull between them                                                        *)

RebuildKws == {KwPrefix(1), KwPrefix(2)}

RebuildGeos == {Str(""), Str("US")}

RebuildShapes == {<<[id |-> "TIMESERIES", meta |-> FALSE]>>,
                  <<[id |-> "TIMESERIES", meta |-> FALSE], [id |-> "RELATED_QUERIES", meta |-> TRUE]>>}

InitRebuild ==
    InitWith({DEFAULT_RETRIES}, {DEFAULT_BACKOFF_FACTOR}, {<<>>}, {FALSE}, {Str("")},
             {[http |-> {HttpOk, HttpConn}, fetch |-> {"nid1"}]})

Rebuild ==
    \E kw \in RebuildKws, g \in RebuildGeos :
        BuildPayload(kw, 0, DefaultTimeframe, g, "", ExploreAnswers(RebuildShapes))

RebuildPull ==
    InterestOverTime(DataAnswers({[r \in 1..1 |-> TimelineRow(r, Len(kw_list), NoFlag)]}))

NextRebuild ==
    \/ Construct
    \/ Rebuild
    \/ RebuildPull

SpecRebuild == InitRebuild /\ [][NextRebuild]_vars

\* the tokens of all held descriptors
HeldTokens == UNION {{w.token : w \in Range(HeldOf(op))} : op \in Pulls}

\* C19: a build_payload call that stores a query other than the stored one
\* leaves held only descriptors issued by its own token exchange; when its
\* exchange fails no descriptor stays held.
C19_HeldAreOfStoredQuery ==
    [][(last'.op = "build_payload" /\ <<kw_list', geo'>> # <<kw_list, geo>>)
          => /\ \A t \in HeldTokens' : t.ex = exchanges' /\ exchanges' = exchanges + 1
             /\ last'.why # "ok" => HeldTokens' = {}]_vars

----------------------------------------------------------------------------
(* Proxy rotation: build_payload's _get_data call on clients with a proxy   *)
(* pool, over credential fetches and data requests that can fail           *)

RotationHttp ==
    {HttpOk, HttpConn,
     [conn |-> FALSE, status |-> 429, json_type |-> FALSE, parses |-> FALSE],
     [conn |-> FALSE, status |-> 404, json_type |-> FALSE, parses |-> FALSE],
     [conn |-> FALSE, status |-> 200, json_type |-> TRUE, parses |-> FALSE]}

InitRotation ==
    InitWith({0}, {0}, ProxyLists \ {<<>>}, {FALSE}, {Str("")},
             {[http |-> RotationHttp, fetch |-> {"nid1", "none", "ProxyError"}]})

RotationBuild ==
    BuildPayload(KwPrefix(1), 0, DefaultTimeframe, Str(""), "",
                 ExploreAnswers({<<[id |-> "TIMESERIES", meta |-> FALSE]>>}))

NextRotation ==
    \/ Construct
    \/ RotationBuild

SpecRotation == InitRotation /\ [][NextRotation]_vars

\* the step is a build_payload call whose _get_data call returned parsed data
DataReturned == last'.op = "build_payload" /\ last'.why \in {"ok", "widgets"}

\* the step is a build_payload call whose _get_data call sent its request and
\* failed on it
DataFailed == last'.op = "build_payload" /\ last'.why \in {"request", "429", "status", "json"}

\* C21 as stated: a _get_data call that returns parsed data leaves the pool as
\* it was and the index one further, modulo the pool size, than before the
\* call; a _get_data call whose request fails leaves both as before the call.
C21_IndexAdvancesByOne ==
    [][/\ DataReturned => /\ proxies' = proxies
                           /\ proxy_index' = (proxy_index + 1) % Len(proxies)
       /\ DataFailed => UNCHANGED <<proxies, proxy_index>>]_vars

\* the proxy errors of the call's credential acquisition that dropped a proxy
Dropped(fetches) == {i \in 1..Len(fetches) : fetches[i].outcome = "ProxyError" /\ fetches[i].pool > 1}

\* the index the credential acquisition leaves, started at idx
RECURSIVE IndexAfter(_, _, _)
IndexAfter(fetches, i, idx) ==
    IF i > Len(fetches) THEN idx
    ELSE IndexAfter(fetches, i + 1,
                    IF i \in Dropped(fetches) /\ idx >= fetches[i].pool - 1 THEN 0 ELSE idx)

\* C21: the credential acquisition of the call removes one proxy per proxy
\* error it meets on a pool of several; a call that returns parsed data
\* leaves the index one further, modulo the size of the remaining pool, than
\* the acquisition left it, and a call whose request fails leaves the pool
\* and the index as the acquisition left them: as before the call when no
\* proxy was dropped.
C21_IndexAdvancesAfterAcquisition ==
    [][(DataReturned \/ DataFailed) =>
          LET fetches == last'.fetches
              acquired == IndexAfter(fetches, 1, proxy_index)
          IN  /\ Len(proxies') = Len(proxies) - Cardinality(Dropped(fetches))
              /\ Dropped(fetches) = {} => proxies' = proxies
              /\ DataReturned => proxy_index' = (acquired + 1) % Len(proxies')
              /\ DataFailed => proxy_index' = acquired]_vars

\* on a pool of two proxies a call answered 200 with JSON moved the index from
\* the first proxy, through which its request went, to the second
C21_Witness ==
    /\ last.op = "build_payload"
    /\ last.why = "ok"
    /\ Len(proxies) = 2
    /\ last.fetches # <<>>
    /\ \A i \in 1..Len(last.fetches) : last.fetches[i].index = 0
    /\ proxy_index = 1

\* C22: a _get_data call made with a non-empty pool runs a credential
\* acquisition before its data request, and the data request carries the
\* credential the acquisition returned and goes through the proxy of the
\* acquisition's last fetch; with an empty pool no acquisition runs and the
\* request carries the credential held since construction.
C22_CredentialBeforeRequest ==
    (last.op = "build_payload" /\ last.why \notin {"validation", "timeframe"}) =>
        IF Len(proxies) > 0
        THEN /\ last.fetches # <<>>
             /\ \A i \in 1..Len(last.sent) :
                   (last.sent[i].url = "cookie") <=> (i <= Len(last.fetches))
             /\ \A i \in 1..Len(SessionRequests(last)) :
                   LET req == SessionRequests(last)[i]
                   IN  /\ req.cookies = (IF LastFetch.outcome \in Creds THEN LastFetch.outcome ELSE "")
                       /\ req.proxy = LastFetch.proxy
        ELSE /\ last.fetches = <<>>
             /\ Len(last.sent) = 1
             /\ last.sent[1].url = "explore"
             /\ last.sent[1].cookies = cookies

\* C28: on a client constructed with proxies the pool never becomes empty, the
\* proxy index is a position of the pool after every call, and every fetch of
\* a credential acquisition selected a position of the pool it met.
C28_ProxyIndexInRange ==
    /\ Len(proxies) > 0 => proxy_index \in 0..(Len(proxies) - 1)
    /\ \A i \in 1..Len(last.fetches) :
          /\ last.fetches[i].pool > 0
          /\ last.fetches[i].index \in 0..(last.fetches[i].pool - 1)
    /\ Len(proxies) > 0
    /\ \A i \in 1..Len(SessionRequests(last)) :
          SessionRequests(last)[i].proxy \in Range(proxies)

\* the second of two proxies failed with a proxy error: it was dropped and
\* the index wrapped to the only proxy left
C28_Witness ==
    /\ Len(proxies) = 1
    /\ proxy_index = 0
    /\ \E i \in 1..Len(last.fetches) :
          /\ last.fetches[i].outcome = "ProxyError"
          /\ last.fetches[i].pool = 2
          /\ last.fetches[i].index = 1

\* the geo the clients of SpecRebuild are constructed with
ConstructedGeo == Str("")

\* the comparison items a client as constructed sends for the arguments
FreshItems(args) ==
    ComparisonItems(Product(args.kw_list, GeoList(Or(args.geo, ConstructedGeo))),
                    args.timeframe, 1, <<>>).items

\* C29: the comparison items of every explore request of build_payload are
\* those a client as constructed sends for the same arguments, whatever
\* build_payload calls came before.
C29_ItemsOfArgumentsOnly ==
    (last.op = "build_payload" /\ ExploreRequests(last) # <<>>) =>
        \A i \in 1..Len(ExploreRequests(last)) :
            ExploreRequests(last)[i].items = FreshItems(last.args)

----------------------------------------------------------------------------
(* TrendsScraper.trending_searches: the wait for the downloaded CSV        *)

\* the 30 seconds of max_wait in steps of the 0.5 the loop adds to waited
MaxWait == 3

\* what one pass of the loop sees: no new file, or the two sizes of the new
\* file taken half a second apart
NoFile == [present |-> FALSE, size1 |-> 0, size2 |-> 0]
Sizes(size1, size2) == [present |-> TRUE, size1 |-> size1, size2 |-> size2]

\* the loop of lines 178-199 from pass i on: whether downloaded_file is set,
\* and whether the loop ended at the break of line 196
RECURSIVE WaitLoop(_, _, _)
WaitLoop(passes, i, downloaded_file) ==
    IF i > Len(passes) THEN [downloaded_file |-> downloaded_file, broke |-> FALSE, passes |-> i - 1]
    ELSE IF passes[i].present
    THEN IF passes[i].size1 > 0 /\ passes[i].size1 = passes[i].size2
         THEN [downloaded_file |-> TRUE, broke |-> TRUE, passes |-> i]
         ELSE WaitLoop(passes, i + 1, TRUE)
    ELSE WaitLoop(passes, i + 1, downloaded_file)

\* lines 201-216 after the loop: the exception raised or the value returned.
\* read_csv of an empty file raises EmptyDataError, which line 221 wraps.
AfterWait(w, final_size, return_df) ==
    IF ~w.downloaded_file
    THEN [exc |-> "DownloadError", why |-> "timeout", read |-> FALSE, result |-> "none"]
    ELSE IF return_df
    THEN IF final_size = 0
         THEN [exc |-> "DownloadError", why |-> "scraping", read |-> TRUE, result |-> "none"]
         ELSE [exc |-> "", why |-> "ok", read |-> TRUE, result |-> "df"]
    ELSE [exc |-> "", why |-> "ok", read |-> FALSE, result |-> "path"]

\* trending_searches: the export succeeds or not, then the wait over the
\* passes the file system shows
ScraperTrendingSearches(export_ok, passes, return_df) ==
    /\ LET w == WaitLoop(passes, 1, FALSE)
           final_size == IF \E i \in 1..Len(passes) : passes[i].present
                         THEN passes[w.passes].size2 ELSE 0
           out == IF export_ok THEN AfterWait(w, final_size, return_df)
                  ELSE [exc |-> "DownloadError", why |-> "export", read |-> FALSE,
                        result |-> "none"]
       IN  last' = [op |-> "scraper.trending_searches",
                    args |-> [return_df |-> return_df],
                    export_ok |-> export_ok,
                    passes |-> IF export_ok THEN SubSeq(passes, 1, w.passes) ELSE <<>>,
                    exc |-> out.exc, why |-> out.why, read |-> out.read,
                    result |-> out.result]
    /\ UNCHANGED client

\* a download that appears at some pass and grows, pauses or completes
FilePasses == {NoFile, Sizes(0, 0), Sizes(0, 1), Sizes(1, 1), Sizes(1, 2), Sizes(2, 2)}

Appeared(passes) ==
    \A i \in 1..(Len(passes) - 1) : passes[i].present => passes[i + 1].present

InitScraper ==
    InitWith({DEFAULT_RETRIES}, {DEFAULT_BACKOFF_FACTOR}, {<<>>}, {FALSE}, {Str("")},
             {[http |-> {HttpOk}, fetch |-> {"nid1"}]})

ScraperTrending ==
    \E export_ok \in BOOLEAN, return_df \in BOOLEAN,
       passes \in {p \in [1..MaxWait -> FilePasses] : Appeared(p)} :
        ScraperTrendingSearches(export_ok, passes, return_df)

NextScraper ==
    \/ ScraperTrending

SpecScraper == InitScraper /\ [][NextScraper]_vars

\* some pass of the wait saw the file with a positive size, equal on its two
\* checks
ObservedComplete ==
    \E i \in 1..Len(last.passes) :
        /\ last.passes[i].present
        /\ last.passes[i].size1 > 0
        /\ last.passes[i].size1 = last.passes[i].size2

\* C30: trending_searches reads the CSV or returns its path only when a pass
\* of the wait observed the file complete, and fails with DownloadError
\* whenever the wait ends without such a pass.
C30_OnlyCompleteFilesUsed ==
    last.op = "scraper.trending_searches" =>
        /\ (last.read \/ last.result # "none") => ObservedComplete
        /\ ~ObservedComplete => last.exc = "DownloadError"

====
